---- MODULE Spec2Model ----
(***************************************************************************)
(* lunasdb: the backup orchestration engine.                               *)
(*                                                                         *)
(* main (src/src/index.js) loads the configuration, runs backupDatabase    *)
(* for every enabled database in turn, prints the summary, posts the       *)
(* webhook and exits.  backupDatabase dumps the database to a staging file *)
(* under /tmp/backups, hands that file to every configured storage         *)
(* (saveToLocal, saveToS3, each followed by its rotation), deletes the     *)
(* staging file and returns a result record.                               *)
(*                                                                         *)
(* The program is a single thread of control: every action below is the    *)
(* code between two await points.  The environment (dump process, file     *)
(* system, S3, webhook endpoint, clock) is a nondeterministic choice of    *)
(* the outcomes it can produce.                                            *)
(***************************************************************************)
EXTENDS Integers, Sequences, FiniteSets, TLC

\* ------------------------------------------------------------------ bounds

\* Date.now() differences are drawn from 0..MaxDuration.
MaxDuration == 1
\* Every destination starts with 0..MaxOld backup artifacts of earlier runs.
MaxOld == 2
\* The most artifacts a storage of dbR holds when a rotation run starts.
MaxPrior == 3
\* The most keys one ListObjectsV2 response holds (1000 at the service,
\* scaled down).
MaxKeys == 8

\* ------------------------------------------------------- program constants

\* const tempDir = '/tmp/backups'
tempDir == "/tmp/backups"

\* A name that is not bound: no database in progress, no message.
Null == "null"
\* An optional value (a result's error and size, the exit code) is <<>> while
\* absent and <<v>> when set.
undefined == <<>>

\* ------------------------------------------------------------ configuration

Local(p, k) == [type |-> "local", loc |-> p, keep |-> k, credentials |-> TRUE]
S3(b, k, c) == [type |-> "s3", loc |-> b, keep |-> k, credentials |-> c]

Database(n, t, e, s) == [name |-> n, type |-> t, enabled |-> e, storage |-> s]

\* The normalized configurations loadConfig hands to main: every storage is a
\* non-empty list, every keep is positive, enabled is a boolean.
dbA == Database("A", "mysql", TRUE,
                <<Local("/backups/a", 1), S3("s3://bucket/a/", 2, TRUE)>>)
dbB == Database("B", "postgres", TRUE,
                <<Local("/backups/b", 1), S3("s3://nocreds/b/", 1, FALSE)>>)
dbC == Database("C", "mariadb", TRUE, <<Local("/backups/c", 2)>>)
dbD == Database("D", "mysql", FALSE, <<Local("/backups/d", 1)>>)
dbT == Database("T", "postgresql", TRUE,
                <<S3("s3://bucket/t/", 1, TRUE), Local("/backups/t", 1),
                  Local("/mnt/t", 2)>>)

\* A second disabled database.
dbS == Database("S", "postgres", FALSE, <<Local("/backups/s", 1)>>)

\* A database with two S3 storages in one bucket, the prefix of the second
\* under the prefix of the first.
dbN == Database("N", "mysql", TRUE,
                <<S3("s3://bucket/n/", 1, TRUE), S3("s3://bucket/n/weekly/", 2, TRUE)>>)

Configs ==
  { [databases |-> <<dbA, dbB, dbC, dbD>>, webhook |-> w] : w \in BOOLEAN }
  \cup { [databases |-> <<dbD, dbT>>, webhook |-> w] : w \in BOOLEAN }
  \cup { [databases |-> <<dbD>>, webhook |-> TRUE],
         [databases |-> <<dbC, dbD, dbB>>, webhook |-> FALSE],
         [databases |-> <<dbS, dbC, dbD>>, webhook |-> TRUE],
         [databases |-> <<dbN>>, webhook |-> FALSE] }

\* The configurations of the rotation runs: one database with one local
\* storage that keeps 10, and one with a local and an S3 storage that keep 2
\* and 1.
dbE == Database("E", "mysql", TRUE, <<Local("/backups/e", 10)>>)
dbR == Database("R", "postgres", TRUE,
                <<Local("/backups/r", 2), S3("s3://bucket/r/", 1, TRUE)>>)

RotationConfigs ==
  { [databases |-> <<d>>, webhook |-> w] : d \in {dbE, dbR}, w \in BOOLEAN }

\* A database whose first storage is the staging directory itself, followed
\* by a local directory and an S3 prefix, each keeping 1.
dbZ == Database("Z", "mysql", TRUE,
                <<Local(tempDir, 1), Local("/backups/z", 1),
                  S3("s3://bucket/z/", 1, TRUE)>>)

\* A database with one S3 storage that keeps 2.
dbP == Database("P", "mysql", TRUE, <<S3("s3://bucket/p/", 2, TRUE)>>)

PagingConfigs == { [databases |-> <<dbP>>, webhook |-> w] : w \in BOOLEAN }

\* A database with one local storage that keeps 1.
dbF == Database("F", "mysql", TRUE, <<Local("/backups/f", 1)>>)

SkewConfigs == { [databases |-> <<dbF>>, webhook |-> w] : w \in BOOLEAN }

\* Two databases with the same storages: one local directory and one S3
\* prefix, each keeping 1.
dbG == Database("G", "mysql", TRUE,
                <<Local("/shared", 1), S3("s3://bucket/shared/", 1, TRUE)>>)
dbH == Database("H", "postgres", TRUE,
                <<Local("/shared", 1), S3("s3://bucket/shared/", 1, TRUE)>>)

DestinationConfigs == { [databases |-> <<dbZ>>, webhook |-> w] : w \in BOOLEAN }

\* The values of type that validateDatabaseConfig accepts (it compares
\* config.type.toLowerCase() and leaves config.type as written), in the letter
\* cases tried here, and a database of each.
AcceptedTypes ==
  {"mysql", "mariadb", "postgres", "postgresql",
   "MySQL", "MariaDB", "Postgres", "PostgreSQL", "POSTGRES"}

dbOfType(t) == Database("Y", t, TRUE, <<Local("/backups/y", 1)>>)

TypeConfigs ==
  { [databases |-> <<dbOfType(t)>>, webhook |-> w] : t \in AcceptedTypes, w \in BOOLEAN }

\* ------------------------------------------------- the configuration file

\* A storage entry as written in the file: path (local) or bucket (s3) is ""
\* when not given, keep is 0 when not given.
RawStorage(t, l, k) == [type |-> t, loc |-> l, keep |-> k, credentials |-> TRUE]

\* The storage key of a database in the file: not given, one object, or an
\* array of objects.
NoStorage == [form |-> "absent", items |-> <<>>]
StorageObject(st) == [form |-> "object", items |-> <<st>>]
StorageArray(items) == [form |-> "array", items |-> items]

\* const required = ['database', 'type', 'host', 'username']
required == {"database", "type", "host", "username"}

\* A database of the file: the required fields given (with a truthy value),
\* the type, enabled (undefined when not given) and the storage key.
RawDatabase(n, given, t, e, st) ==
  [name |-> n, given |-> given, type |-> t, enabled |-> e, storage |-> st]

\* config.type.toLowerCase(), on the values of type tried
toLowerCase(t) ==
  IF t = "MySQL" THEN "mysql"
  ELSE IF t = "MariaDB" THEN "mariadb"
  ELSE IF t \in {"Postgres", "POSTGRES"} THEN "postgres"
  ELSE IF t = "PostgreSQL" THEN "postgresql"
  ELSE t

\* validateStorageConfig: the type is local or s3, a local storage has a
\* path, an s3 storage has a bucket.
validateStorageConfig(storageConfig) ==
  /\ storageConfig.type \in {"local", "s3"}
  /\ storageConfig.loc # ""

\* Mutant of validateDatabaseConfig: the storage key is not looked at.
validateDatabaseConfig_noStorage(dbConfig) ==
  /\ required \subseteq dbConfig.given
  /\ toLowerCase(dbConfig.type) \in {"mysql", "mariadb", "postgres", "postgresql"}

\* validateDatabaseConfig: TRUE when it returns, FALSE when it throws.
validateDatabaseConfig(dbConfig) ==
  /\ required \subseteq dbConfig.given
  /\ toLowerCase(dbConfig.type) \in {"mysql", "mariadb", "postgres", "postgresql"}
  /\ IF dbConfig.storage.form = "absent" THEN TRUE
     ELSE IF dbConfig.storage.form = "array"
     THEN /\ Len(dbConfig.storage.items) # 0
          /\ \A i \in DOMAIN dbConfig.storage.items :
               validateStorageConfig(dbConfig.storage.items[i])
     ELSE validateStorageConfig(dbConfig.storage.items[1])

\* dbConfig.enabled after the normalisation of loadConfig: true when not
\* given, Boolean(value) otherwise.
enabledOf(dbConfig) ==
  IF dbConfig.enabled = <<>> THEN TRUE ELSE dbConfig.enabled[1]

\* The database loadConfig leaves in config.databases: for an enabled one the
\* storage is an array (the default one when not given) and every keep is
\* set; a disabled one is left as written (its storage is not read again).
normalized(dbConfig) ==
  Database(dbConfig.name, dbConfig.type, enabledOf(dbConfig),
           IF enabledOf(dbConfig) /\ dbConfig.storage.form = "absent"
           THEN <<Local("/backups", 10)>>
           ELSE [i \in DOMAIN dbConfig.storage.items |->
                   [dbConfig.storage.items[i] EXCEPT
                      !.keep = IF enabledOf(dbConfig) /\ @ = 0 THEN 10 ELSE @]])

\* The webhook key of the file: not given, a URL, a string new URL() rejects,
\* or a value that is not a string.
WebhookKinds == {"none", "url", "notAUrl", "notAString"}

\* loadConfig(configPath) on the contents of the file: it throws when there
\* is no database, when validateDatabaseConfig throws for an enabled
\* database, or when the webhook is given and is not a string new URL()
\* accepts; otherwise it returns the normalised configuration.
loadConfig(file) ==
  IF \/ Len(file.databases) = 0
     \/ \E i \in DOMAIN file.databases :
          enabledOf(file.databases[i]) /\ ~validateDatabaseConfig(file.databases[i])
     \/ file.webhook \in {"notAUrl", "notAString"}
  THEN [threw |-> TRUE, config |-> <<>>]
  ELSE [threw |-> FALSE,
        config |-> [databases |-> [i \in DOMAIN file.databases |->
                                     normalized(file.databases[i])],
                    webhook |-> file.webhook = "url"]]

\* The files tried: database V, valid, with no storage key, followed by a
\* database W that is valid or has one defect; every kind of webhook.
rawV == RawDatabase("V", required, "mysql", <<>>, NoStorage)

rawW(given, t, e, st) == RawDatabase("W", given, t, e, st)

validW == StorageArray(<<RawStorage("local", "/backups/w", 1)>>)

DatabasesW ==
  {rawW(required, "postgres", <<TRUE>>, validW),
   rawW(required, "postgres", <<>>, NoStorage),
   rawW(required, "oracle", <<>>, validW),
   rawW(required, "oracle", <<FALSE>>, validW),
   rawW(required, "postgres", <<>>, StorageArray(<<>>)),
   rawW(required, "postgres", <<>>, StorageObject(RawStorage("ftp", "/backups/w", 1))),
   rawW(required, "postgres", <<>>, StorageObject(RawStorage("local", "", 1))),
   rawW(required, "postgres", <<>>, StorageObject(RawStorage("s3", "", 1))),
   rawW(required, "postgres", <<>>,
        StorageArray(<<RawStorage("local", "/backups/w", 0), RawStorage("s3", "", 1)>>))}
  \cup {rawW(required \ {f}, "postgres", <<>>, validW) : f \in required}

ConfigFiles ==
  { [databases |-> <<rawV, w>>, webhook |-> k] : w \in DatabasesW, k \in WebhookKinds }
  \cup { [databases |-> <<>>, webhook |-> "none"] }

\* The databases loadConfig returns for the files of ConfigFiles.
LoadedDatabases ==
  UNION { {loadConfig(f).config.databases[i] : i \in DOMAIN loadConfig(f).config.databases}
          : f \in {g \in ConfigFiles : ~loadConfig(g).threw} }

AllDatabases ==
  {dbA, dbB, dbC, dbD, dbT, dbS, dbN, dbE, dbR, dbZ, dbP, dbG, dbH, dbF} \cup LoadedDatabases \cup {dbOfType(t) : t \in AcceptedTypes}
Names == {d.name : d \in AllDatabases}
Locations ==
  {tempDir} \cup UNION {{d.storage[i].loc : i \in DOMAIN d.storage} : d \in AllDatabases}

VARIABLES
  options,       \* the command-line options returned by parseArguments
  config,        \* the configuration object returned by loadConfig
  pc,            \* where main stands
  enabledDatabases, disabledDatabases,
  cur,           \* index in enabledDatabases of the database in progress
  results,       \* main's results array
  backup,        \* the locals of the backupDatabase call in progress
  fs,            \* location -> set of files (local directories and S3 prefixes)
  now,           \* the clock: file timestamps and modification times
  summary,       \* successful / failed / skipped / totalDuration of main
  webhook,       \* the webhook delivery: the payload posted and what became of it
  exitCode,      \* <<the argument of process.exit>>, undefined while running
  calls,         \* log: name -> how often backupDatabase and the dump producer
                 \* were invoked, how often the dump resolved / rejected, and
                 \* how often an error left backupDatabase
  attempts,      \* log: one entry per invocation of saveToLocal / saveToS3,
                 \* with the files at the destination before and after it
  outstanding    \* the staging file names whose gzip process and write stream
                 \* were left running when their producer's promise settled

vars == <<options, config, pc, enabledDatabases, disabledDatabases, cur, results, backup,
          fs, now, summary, webhook, exitCode, calls, attempts, outstanding>>

\* ------------------------------------------------------------------- files

\* A file is [name, mtime]; a name is [db, ts, ext], printed by the program as
\* {db}_{ts}.{ext}.
FileName(db, ts, ext) == [db |-> db, ts |-> ts, ext |-> ext]
File(name, mtime) == [name |-> name, mtime |-> mtime, isFile |-> TRUE]

\* A directory entry of a directory: fs.statSync(fullPath).isFile() is false.
Directory(name, mtime) == [name |-> name, mtime |-> mtime, isFile |-> FALSE]

\* A text is held as the sequence of its pieces: a piece is a character
\* (field = the character) or a group of digits (field = what they count,
\* v = the number).
Char(c) == [field |-> c, v |-> 0]
Digits(field, v) == [field |-> field, v |-> v]

\* new Date(t).toISOString() of the clock value t in milliseconds:
\* YYYY-MM-DDTHH:MM:SS.mmmZ, the date held as the number of the day.
toISOString(t) ==
  <<Digits("date", t \div 86400000), Char("T"),
    Digits("hours", (t \div 3600000) % 24), Char(":"),
    Digits("minutes", (t \div 60000) % 60), Char(":"),
    Digits("seconds", (t \div 1000) % 60), Char("."),
    Digits("milliseconds", t % 1000), Char("Z")>>

\* text.replace(/[chars]/g, by)
replaceAll(text, chars, by) ==
  [i \in DOMAIN text |-> IF text[i].field \in chars THEN Char(by) ELSE text[i]]

\* text.replace(c, by): the first c only
replaceFirst(text, c, by) ==
  [i \in DOMAIN text |->
     IF text[i].field = c /\ \A j \in 1..(i - 1) : text[j].field # c
     THEN Char(by) ELSE text[i]]

\* text.split(c)[0]
splitHead(text, c) ==
  IF \E i \in DOMAIN text : text[i].field = c
  THEN SubSeq(text, 1, (CHOOSE i \in DOMAIN text :
                          /\ text[i].field = c
                          /\ \A j \in 1..(i - 1) : text[j].field # c) - 1)
  ELSE text

\* new Date().toISOString().replace(/[:.]/g, '-').replace('T', '_').split('Z')[0]
timestampOf(t) ==
  splitHead(replaceFirst(replaceAll(toISOString(t), {":", "."}, "-"), "T", "_"), "Z")

\* const extension = dbType === 'postgres' || dbType === 'postgresql' ? 'dump' : 'sql.gz'
\* return `${dbName}_${timestamp}.${extension}`, with the clock value the
\* timestamp is taken from as third parameter
generateBackupFilename(dbName, dbType, timestamp) ==
  FileName(dbName, timestampOf(timestamp),
           IF dbType = "postgres" \/ dbType = "postgresql" THEN "dump" ELSE "sql.gz")

\* fs.existsSync(path.join(dir, name))
existsSync(fsys, dir, name) == \E f \in fsys[dir] : f.name = name

\* fs.unlinkSync(path.join(dir, name))
unlinkSync(fsys, dir, name) ==
  [fsys EXCEPT ![dir] = {f \in @ : f.name # name}]

\* Writing a file replaces the file of that name.
writeFile(fsys, dir, name, mtime) ==
  [fsys EXCEPT ![dir] = {f \in @ : f.name # name} \cup {File(name, mtime)}]

\* file.endsWith('.sql.gz') || file.endsWith('.dump')
hasBackupSuffix(f) == f.name.ext = "sql.gz" \/ f.name.ext = "dump"

\* Mutant of isBackupFile: every regular file is a candidate of the rotation.
isBackupFile_anySuffix(f) == f.isFile

\* fs.statSync(fullPath).isFile() && (file.endsWith('.sql.gz') || file.endsWith('.dump'))
isBackupFile(f) == f.isFile /\ hasBackupSuffix(f)

\* files.sort((a, b) => b.mtime - a.mtime): every order of the files that is
\* newest first; files of equal mtime keep the order of the listing, which is
\* any order.
\* Mutant of sortNewestFirst: the comparison is a.mtime - b.mtime, oldest first.
RECURSIVE sortNewestFirst_oldestFirst(_)
sortNewestFirst_oldestFirst(files) ==
  IF files = {} THEN {<<>>}
  ELSE LET oldest == {f \in files : \A g \in files : f.mtime <= g.mtime}
       IN UNION { {<<f>> \o s : s \in sortNewestFirst_oldestFirst(files \ {f})}
                  : f \in oldest }

RECURSIVE sortNewestFirst(_)
sortNewestFirst(files) ==
  IF files = {} THEN {<<>>}
  ELSE LET newest == {f \in files : \A g \in files : f.mtime >= g.mtime}
       IN UNION { {<<f>> \o s : s \in sortNewestFirst(files \ {f})}
                  : f \in newest }

\* Mutant of filesToDelete: the entries before the last keep are taken, on a
\* list that is sorted newest first.
filesToDelete_newest(sorted, keep) ==
  IF Len(sorted) > keep THEN SubSeq(sorted, 1, Len(sorted) - keep) ELSE <<>>

\* Mutant of filesToDelete: the slice starts one entry late.
filesToDelete_keepsOneMore(sorted, keep) ==
  IF Len(sorted) > keep THEN SubSeq(sorted, keep + 2, Len(sorted)) ELSE <<>>

\* files.slice(keep) when files.length > keep, nothing otherwise
filesToDelete(sorted, keep) ==
  IF Len(sorted) > keep THEN SubSeq(sorted, keep + 1, Len(sorted)) ELSE <<>>

\* What the environment does to a rotation pass: nothing, the listing raises,
\* or the delete of the at-th file to delete raises.
NoFault == [kind |-> "none", at |-> 0]
RotationFaults ==
  {NoFault, [kind |-> "list", at |-> 0]}
  \cup {[kind |-> "delete", at |-> j] : j \in 1..(MaxOld + 1)}

\* The deletes of one rotation pass over the files of dir: the files deleted
\* before the fault (all of them without one), and whether the pass raised.
rotationPass(fsys, dir, keep, fault) ==
  IF fault.kind = "list"
  THEN {[fs |-> fsys, threw |-> TRUE]}
  ELSE
    { LET del == filesToDelete(sorted, keep)
          failed == fault.kind = "delete" /\ fault.at <= Len(del)
          done == IF failed THEN fault.at - 1 ELSE Len(del)
      IN [fs |-> [fsys EXCEPT ![dir] = @ \ {del[i] : i \in 1..done}],
          threw |-> failed]
      : sorted \in sortNewestFirst({f \in fsys[dir] : isBackupFile(f)}) }

\* rotateLocalBackups(directory, keep): readdirSync, filter, sort, unlinkSync;
\* the catch logs and rethrows.
rotateLocalBackups(fsys, directory, keep, fault) ==
  rotationPass(fsys, directory, keep, fault)

\* The pairs <<p, q>> of configured S3 locations of one bucket where the key
\* prefix q starts with the key prefix p.
NestedPrefixes == {<<"s3://bucket/n/", "s3://bucket/n/weekly/">>}

\* ListObjectsV2 { Bucket, Prefix }: the objects of the bucket whose key starts
\* with the prefix, those under a longer prefix included.
objectsUnder(fsys, prefix) ==
  UNION { { [loc |-> l, name |-> f.name, mtime |-> f.mtime] : f \in fsys[l] }
          : l \in {prefix} \cup {q \in DOMAIN fsys : <<prefix, q>> \in NestedPrefixes} }

\* The order of the keys (UTF-8 binary order) on the keys that occur: the
\* objects at the prefix itself before those under a nested prefix, then by
\* database name, then by the digits of the timestamp, then by suffix.
SortedNames == <<"A", "B", "C", "D", "E", "F", "G", "H", "N", "P", "R", "S", "T", "V", "W", "Y", "Z">>
nameRank(n) == CHOOSE i \in DOMAIN SortedNames : SortedNames[i] = n
extRank(e) == IF e = "" THEN 0 ELSE IF e = "dump" THEN 1 ELSE IF e = "log" THEN 2 ELSE 3

keyOf(o, prefix) ==
  <<IF o.loc = prefix THEN 0 ELSE 1, nameRank(o.name.db)>>
  \o [i \in DOMAIN o.name.ts |-> o.name.ts[i].v]
  \o <<extRank(o.name.ext)>>

RECURSIVE seqLess(_, _)
seqLess(a, b) ==
  IF a = <<>> \/ b = <<>> THEN a = <<>> /\ b # <<>>
  ELSE IF Head(a) # Head(b) THEN Head(a) < Head(b)
  ELSE seqLess(Tail(a), Tail(b))

\* Mutant of listObjects: the request is repeated with the continuation
\* token until the listing is complete.
listObjects_allPages(fsys, prefix) == objectsUnder(fsys, prefix)

\* One ListObjectsV2 request with no MaxKeys and no ContinuationToken: the
\* first MaxKeys keys under the prefix in key order; IsTruncated is not read.
listObjects(fsys, prefix) ==
  LET all == objectsUnder(fsys, prefix)
  IN IF Cardinality(all) <= MaxKeys THEN all
     ELSE {o \in all :
             Cardinality({q \in all : seqLess(keyOf(q, prefix), keyOf(o, prefix))})
               < MaxKeys}

\* DeleteObject { Bucket, Key: file.Key } for each object of gone
deleteObjects(fsys, prefix, gone) ==
  [l \in DOMAIN fsys |->
     {f \in fsys[l] : ~\E o \in gone : o.loc = l /\ o.name = f.name}]

\* rotateS3Backups(s3Client, bucket, prefix, keep): ListObjectsV2, filter, sort,
\* DeleteObject; the catch logs and rethrows.
rotateS3Backups(fsys, prefix, keep, fault) ==
  IF fault.kind = "list"
  THEN {[fs |-> fsys, threw |-> TRUE]}
  ELSE
    { LET del == filesToDelete(sorted, keep)
          failed == fault.kind = "delete" /\ fault.at <= Len(del)
          done == IF failed THEN fault.at - 1 ELSE Len(del)
      IN [fs |-> deleteObjects(fsys, prefix, {del[i] : i \in 1..done}),
          threw |-> failed]
      : sorted \in sortNewestFirst({o \in listObjects(fsys, prefix) : hasBackupSuffix(o)}) }

\* ----------------------------------------------------------------- storage

\* What one call of saveToLocal / saveToS3 did: the file system it leaves,
\* whether it raised (and the message), the location it returned, and for the
\* log whether the artifact was stored and whether the rotation raised.
Returned(fsys, path) ==
  [fs |-> fsys, threw |-> FALSE, error |-> Null, path |-> path,
   stored |-> TRUE, rotationFailed |-> FALSE]
Threw(fsys, msg, stored, rotationFailed) ==
  [fs |-> fsys, threw |-> TRUE, error |-> msg, path |-> <<>>,
   stored |-> stored, rotationFailed |-> rotationFailed]

\* await rotateLocalBackups(storagePath, keep); return destinationPath
\* (a rotation that raises is rethrown by the rotation's catch and leaves
\* saveToLocal through the await)
afterRotation(rot, path, msg) ==
  IF rot.threw THEN Threw(rot.fs, msg, TRUE, TRUE) ELSE Returned(rot.fs, path)

\* saveToLocal(backupFilePath, config): the staging file name is copied to
\* storage.path unless that is the staging directory itself, then the
\* directory is rotated.  ioOk: whether copyFileSync succeeds on an existing
\* source.
saveToLocal(fsys, name, storage, ioOk, fault) ==
  LET storagePath == storage.loc
      destinationPath == <<storagePath, name>>
      copies == storagePath # tempDir
  IN IF copies /\ ~(ioOk /\ existsSync(fsys, tempDir, name))
     THEN {Threw(fsys, "copyFileSync failed", FALSE, FALSE)}
     ELSE LET saved == IF copies THEN writeFile(fsys, storagePath, name, now)
                       ELSE fsys
          IN { afterRotation(rot, destinationPath, "rotation failed")
               : rot \in rotateLocalBackups(saved, storagePath, storage.keep, fault) }

\* saveToS3(backupFilePath, config): credentials are checked first, the staging
\* file is read (statSync) and uploaded under prefix + name, then the prefix is
\* rotated.  ioOk: whether the upload succeeds.
saveToS3(fsys, name, storage, ioOk, fault) ==
  LET s3Key == <<storage.loc, name>>
  IN IF ~storage.credentials
     THEN {Threw(fsys, "S3 storage requires accessKeyId and secretAccessKey",
                 FALSE, FALSE)}
     ELSE IF ~existsSync(fsys, tempDir, name)
     THEN {Threw(fsys, "ENOENT", FALSE, FALSE)}
     ELSE IF ~ioOk
     THEN {Threw(fsys, "upload failed", FALSE, FALSE)}
     ELSE LET saved == writeFile(fsys, storage.loc, name, now)
          IN { afterRotation(rot, s3Key, "rotation failed")
               : rot \in rotateS3Backups(saved, storage.loc, storage.keep, fault) }

\* ------------------------------------------------------------ initial state

\* The byte sizes a dump can have (stats.size).
Sizes == {2048}

\* The artifacts n earlier runs of database d left at one of its destinations.
OldFiles(d, n) ==
  { File(generateBackupFilename(d.name, d.type, i), i) : i \in 1..n }

Owner(loc) ==
  CHOOSE d \in AllDatabases : \E i \in DOMAIN d.storage : d.storage[i].loc = loc

\* The dump process of the call in progress, as the producer's handlers see
\* it: its exit code once it has exited, the text it writes to stderr in all,
\* the text the 'data' handler has collected, and whether 'close' was handled.
NoProcess == [code |-> undefined, text |-> "", stderr |-> "", closed |-> FALSE]

NoBackup ==
  [name |-> Null, config |-> <<>>, file |-> <<>>, size |-> 0, idx |-> 0,
   storages |-> <<>>, storageErrors |-> <<>>, process |-> NoProcess]

\* program.opts() of a start without --database and --list.
NoOptions == [database |-> <<>>, list |-> FALSE]

NoWebhook == [outcome |-> "none", payload |-> undefined]

NoSummary ==
  [total |-> 0, successful |-> 0, failed |-> 0, skipped |-> 0, totalDuration |-> 0]

Init ==
  /\ options = NoOptions
  /\ config \in Configs
  /\ pc = "loadConfig"
  /\ enabledDatabases = <<>>
  /\ disabledDatabases = <<>>
  /\ cur = 1
  /\ results = <<>>
  /\ backup = NoBackup
  /\ \E n \in 0..MaxOld :
       fs = [l \in Locations |->
               IF l = tempDir THEN {} ELSE OldFiles(Owner(l), n)]
  /\ now = MaxOld + 1
  /\ summary = NoSummary
  /\ webhook = NoWebhook
  /\ exitCode = undefined
  /\ calls = [n \in Names |->
                [backupDatabase |-> 0, dump |-> 0, resolved |-> 0, rejected |-> 0,
                 escaped |-> 0]]
  /\ attempts = <<>>
  /\ outstanding = {}

\* How the modification times of the artifacts at a destination relate to
\* their names: in the order of the names, all the same (copied or restored
\* together, or S3's LastModified of one second), or in the reverse order
\* (older artifacts rewritten later).
MtimePatterns == {"in order", "same", "reversed"}

mtimeOf(pattern, i, n) ==
  IF pattern = "in order" THEN i
  ELSE IF pattern = "same" THEN 1
  ELSE n + 1 - i

\* The n artifacts of database d at a destination, with the modification
\* times of the pattern.
PriorFiles(d, n, pattern) ==
  { File(generateBackupFilename(d.name, d.type, i), mtimeOf(pattern, i, n))
    : i \in 1..n }

\* The program started on a rotation configuration: the storage of dbE holds
\* 12 artifacts of earlier runs, each storage of dbR holds up to MaxPrior of
\* them; all are older than the run.
InitRotation ==
  /\ options = NoOptions
  /\ config \in RotationConfigs
  /\ pc = "loadConfig"
  /\ enabledDatabases = <<>>
  /\ disabledDatabases = <<>>
  /\ cur = 1
  /\ results = <<>>
  /\ backup = NoBackup
  /\ IF config.databases[1] = dbE
     THEN fs = [l \in Locations |->
                  IF l = "/backups/e" THEN OldFiles(dbE, 12) ELSE {}]
     ELSE \E n \in [{"/backups/r", "s3://bucket/r/"} -> 0..MaxPrior],
             pattern \in [{"/backups/r", "s3://bucket/r/"} -> MtimePatterns] :
            fs = [l \in Locations |->
                    IF l \in DOMAIN n THEN PriorFiles(dbR, n[l], pattern[l])
                    ELSE {}]
  /\ now = 12 + 1
  /\ summary = NoSummary
  /\ webhook = NoWebhook
  /\ exitCode = undefined
  /\ calls = [n \in Names |->
                [backupDatabase |-> 0, dump |-> 0, resolved |-> 0, rejected |-> 0,
                 escaped |-> 0]]
  /\ attempts = <<>>
  /\ outstanding = {}

\* What a local directory holds besides artifacts: a log file newer than
\* every artifact of earlier runs, a file without suffix, and a directory
\* whose name ends in .dump.
OtherEntries(d) ==
  { File(FileName(d.name, timestampOf(1), "log"), 12),
    File(FileName(d.name, timestampOf(1), ""), 1),
    Directory(FileName(d.name, timestampOf(0), "dump"), 1) }

\* What an S3 prefix holds besides artifacts: objects with other suffixes.
OtherObjects(d) ==
  { File(FileName(d.name, timestampOf(1), "log"), 12),
    File(FileName(d.name, timestampOf(1), ""), 1) }

\* The program started on dbZ: the staging directory holds up to one
\* artifact an earlier run failed to delete, the other two storages hold
\* artifacts of earlier runs and, or not, other entries.
InitDestinations ==
  /\ options = NoOptions
  /\ config \in DestinationConfigs
  /\ pc = "loadConfig"
  /\ enabledDatabases = <<>>
  /\ disabledDatabases = <<>>
  /\ cur = 1
  /\ results = <<>>
  /\ backup = NoBackup
  /\ \E left \in 0..1, n \in 0..MaxOld, m \in 0..1, others \in BOOLEAN,
        pattern \in MtimePatterns :
       fs = [l \in Locations |->
               IF l = tempDir THEN PriorFiles(dbZ, left, "in order")
               ELSE IF l = "/backups/z"
               THEN PriorFiles(dbZ, n, pattern)
                    \cup (IF others THEN OtherEntries(dbZ) ELSE {})
               ELSE IF l = "s3://bucket/z/"
               THEN PriorFiles(dbZ, m, "in order")
                    \cup (IF others THEN OtherObjects(dbZ) ELSE {})
               ELSE {}]
  /\ now = 12 + 1
  /\ summary = NoSummary
  /\ webhook = NoWebhook
  /\ exitCode = undefined
  /\ calls = [n \in Names |->
                [backupDatabase |-> 0, dump |-> 0, resolved |-> 0, rejected |-> 0,
                 escaped |-> 0]]
  /\ attempts = <<>>
  /\ outstanding = {}

\* The program started on dbP: its prefix holds from MaxKeys - 2 to
\* MaxKeys + 2 artifacts of earlier runs, all older than the run and of
\* distinct modification times.
InitPaging ==
  /\ options = NoOptions
  /\ config \in PagingConfigs
  /\ pc = "loadConfig"
  /\ enabledDatabases = <<>>
  /\ disabledDatabases = <<>>
  /\ cur = 1
  /\ results = <<>>
  /\ backup = NoBackup
  /\ \E n \in (MaxKeys - 2)..(MaxKeys + 2), pattern \in {"in order", "reversed"} :
       fs = [l \in Locations |->
               IF l = "s3://bucket/p/" THEN PriorFiles(dbP, n, pattern) ELSE {}]
  /\ now = MaxKeys + 3
  /\ summary = NoSummary
  /\ webhook = NoWebhook
  /\ exitCode = undefined
  /\ calls = [n \in Names |->
                [backupDatabase |-> 0, dump |-> 0, resolved |-> 0, rejected |-> 0,
                 escaped |-> 0]]
  /\ attempts = <<>>
  /\ outstanding = {}

\* let config, before loadConfig has returned.
NotLoaded == [databases |-> <<>>, webhook |-> FALSE]

\* The program started on a file of ConfigFiles, named by options.config:
\* nothing parsed or loaded yet.
InitLoad ==
  /\ \E file \in ConfigFiles :
       options = [database |-> <<>>, list |-> FALSE, config |-> file]
  /\ config = NotLoaded
  /\ pc = "start"
  /\ enabledDatabases = <<>>
  /\ disabledDatabases = <<>>
  /\ cur = 1
  /\ results = <<>>
  /\ backup = NoBackup
  /\ \E n \in 0..1 :
       fs = [l \in Locations |->
               IF l \in {"/backups", "/backups/w"} THEN OldFiles(Owner(l), n) ELSE {}]
  /\ now = MaxOld + 1
  /\ summary = NoSummary
  /\ webhook = NoWebhook
  /\ exitCode = undefined
  /\ calls = [n \in Names |->
                [backupDatabase |-> 0, dump |-> 0, resolved |-> 0, rejected |-> 0,
                 escaped |-> 0]]
  /\ attempts = <<>>
  /\ outstanding = {}

\* The artifacts of database d at a destination dated after the clock value
\* t (written under a clock that was ahead, or restored or touched since).
LaterFiles(d, n, t) ==
  { File(generateBackupFilename(d.name, d.type, i), t + i) : i \in 1..n }

\* The program started on dbF: its directory holds up to MaxOld artifacts
\* of earlier runs, older than the run or dated after it, and, or not,
\* other entries.
InitSkew ==
  /\ options = NoOptions
  /\ config \in SkewConfigs
  /\ pc = "loadConfig"
  /\ enabledDatabases = <<>>
  /\ disabledDatabases = <<>>
  /\ cur = 1
  /\ results = <<>>
  /\ backup = NoBackup
  /\ \E n \in 0..MaxOld, later \in BOOLEAN, others \in BOOLEAN :
       fs = [l \in Locations |->
               IF l = "/backups/f"
               THEN (IF later THEN LaterFiles(dbF, n, 12 + 1 + MaxDuration)
                     ELSE OldFiles(dbF, n))
                    \cup (IF others THEN OtherEntries(dbF) ELSE {})
               ELSE {}]
  /\ now = 12 + 1
  /\ summary = NoSummary
  /\ webhook = NoWebhook
  /\ exitCode = undefined
  /\ calls = [n \in Names |->
                [backupDatabase |-> 0, dump |-> 0, resolved |-> 0, rejected |-> 0,
                 escaped |-> 0]]
  /\ attempts = <<>>
  /\ outstanding = {}

\* The file with two valid databases and no storage key: loadConfig gives
\* both the default storage, the directory /backups keeping 10.
DefaultsFiles ==
  { [databases |-> <<rawV, rawW(required, "postgres", <<>>, NoStorage)>>, webhook |-> k]
    : k \in {"none", "url"} }

\* Configurations of two databases that store at the same places: what
\* loadConfig returns for the files of DefaultsFiles, and dbG with dbH.
SharedConfigs ==
  { loadConfig(f).config : f \in DefaultsFiles }
  \cup { [databases |-> <<dbG, dbH>>, webhook |-> w] : w \in BOOLEAN }

\* The program started on a configuration of SharedConfigs: the shared
\* places hold artifacts of earlier runs of the second database, 9 or 10 of
\* them in /backups, up to one in the places of dbG and dbH.
InitShared ==
  /\ options = NoOptions
  /\ config \in SharedConfigs
  /\ pc = "loadConfig"
  /\ enabledDatabases = <<>>
  /\ disabledDatabases = <<>>
  /\ cur = 1
  /\ results = <<>>
  /\ backup = NoBackup
  /\ \E n \in 9..10, m \in 0..1 :
       fs = [l \in Locations |->
               IF l = "/backups" /\ config.databases[1].name = "V"
               THEN OldFiles(config.databases[2], n)
               ELSE IF l \in {"/shared", "s3://bucket/shared/"}
                       /\ config.databases[1].name = "G"
               THEN PriorFiles(dbH, m, "in order")
               ELSE {}]
  /\ now = 12 + 1
  /\ summary = NoSummary
  /\ webhook = NoWebhook
  /\ exitCode = undefined
  /\ calls = [n \in Names |->
                [backupDatabase |-> 0, dump |-> 0, resolved |-> 0, rejected |-> 0,
                 escaped |-> 0]]
  /\ attempts = <<>>
  /\ outstanding = {}

\* The command lines tried: no --database, or some names (configured or
\* not, enabled or not), each with and without --list.
Requests == {<<>>, <<"C">>, <<"B", "C">>, <<"D">>, <<"ghost">>, <<"ghost", "C">>}
OptionSets == { [database |-> r, list |-> l] : r \in Requests, l \in BOOLEAN }

\* The program started with a command line of OptionSets.
InitOptions ==
  /\ options \in OptionSets
  /\ config \in { [databases |-> <<dbC, dbD, dbB>>, webhook |-> FALSE],
                   [databases |-> <<dbS, dbC, dbD>>, webhook |-> TRUE] }
  /\ pc = "loadConfig"
  /\ enabledDatabases = <<>>
  /\ disabledDatabases = <<>>
  /\ cur = 1
  /\ results = <<>>
  /\ backup = NoBackup
  /\ \E n \in 0..MaxOld :
       fs = [l \in Locations |->
               IF l = tempDir THEN {} ELSE OldFiles(Owner(l), n)]
  /\ now = MaxOld + 1
  /\ summary = NoSummary
  /\ webhook = NoWebhook
  /\ exitCode = undefined
  /\ calls = [n \in Names |->
                [backupDatabase |-> 0, dump |-> 0, resolved |-> 0, rejected |-> 0,
                 escaped |-> 0]]
  /\ attempts = <<>>
  /\ outstanding = {}

\* The program started on a configuration of TypeConfigs.
InitTypes ==
  /\ options = NoOptions
  /\ config \in TypeConfigs
  /\ pc = "loadConfig"
  /\ enabledDatabases = <<>>
  /\ disabledDatabases = <<>>
  /\ cur = 1
  /\ results = <<>>
  /\ backup = NoBackup
  /\ \E n \in 0..MaxOld :
       fs = [l \in Locations |->
               IF l = "/backups/y" THEN OldFiles(config.databases[1], n) ELSE {}]
  /\ now = MaxOld + 1
  /\ summary = NoSummary
  /\ webhook = NoWebhook
  /\ exitCode = undefined
  /\ calls = [n \in Names |->
                [backupDatabase |-> 0, dump |-> 0, resolved |-> 0, rejected |-> 0,
                 escaped |-> 0]]
  /\ attempts = <<>>
  /\ outstanding = {}

\* -------------------------------------------------------------------- main

\* dbConfig.enabled !== false
isEnabled(dbConfig) == dbConfig.enabled # FALSE
\* dbConfig.enabled === false
isDisabled(dbConfig) == dbConfig.enabled = FALSE

\* Mutant of filterEnabled: the enabled databases come out last first.
filterEnabled_reversed(allDatabases) ==
  LET enabled == SelectSeq(allDatabases, isEnabled)
  IN [i \in 1..Len(enabled) |-> enabled[Len(enabled) + 1 - i]]

\* Mutant of filterEnabled: the enabled flag is not looked at.
filterEnabled_all(allDatabases) == allDatabases

\* allDatabases.filter(([_, dbConfig]) => dbConfig.enabled !== false)
filterEnabled(allDatabases) == SelectSeq(allDatabases, isEnabled)
\* allDatabases.filter(([_, dbConfig]) => dbConfig.enabled === false)
filterDisabled(allDatabases) == SelectSeq(allDatabases, isDisabled)

\* Mutant of filterRequested: the requested names are not looked at.
filterRequested_all(allDatabases, requested) == allDatabases

\* if (options.database && options.database.length > 0)
\*   allDatabases = allDatabases.filter(([name]) => requestedDatabases.has(name))
filterRequested(allDatabases, requested) ==
  IF Len(requested) > 0
  THEN SelectSeq(allDatabases,
                 LAMBDA d : \E i \in DOMAIN requested : requested[i] = d.name)
  ELSE allDatabases

\* main, const config = loadConfig(configPath): when loadConfig throws, the
\* catch of main prints 'Fatal error' and calls process.exit(1).
main_start ==
  /\ pc = "start"
  /\ LET loaded == loadConfig(options.config)
     IN IF loaded.threw
        THEN /\ exitCode' = <<1>>
             /\ pc' = "done"
             /\ UNCHANGED config
        ELSE /\ config' = loaded.config
             /\ pc' = "loadConfig"
             /\ UNCHANGED exitCode
  /\ UNCHANGED <<outstanding, options, enabledDatabases, disabledDatabases, cur, results,
                 backup, fs, now, summary, webhook, calls, attempts>>

\* main, up to the loop over the enabled databases: the options, the
\* configuration, the databases requested with --database (the process exits
\* with code 1 when none of them is configured), the enabled and the disabled
\* ones.  options.list is not read anywhere in main.
main_loadConfig ==
  /\ pc = "loadConfig"
  /\ LET allDatabases == filterRequested(config.databases, options.database)
     IN IF Len(options.database) > 0 /\ Len(allDatabases) = 0
        THEN /\ exitCode' = <<1>>
             /\ pc' = "done"
             /\ UNCHANGED <<enabledDatabases, disabledDatabases>>
        ELSE /\ enabledDatabases' = filterEnabled(allDatabases)
             /\ disabledDatabases' = filterDisabled(allDatabases)
             /\ pc' = "loop"
             /\ UNCHANGED exitCode
  /\ UNCHANGED <<outstanding, options, config, cur, results, backup, fs, now, summary, webhook,
                 calls, attempts>>

\* ---------------------------------------------------------- backupDatabase

\* new Error(text) whose message carries the number n
Error(text, n) == <<[text |-> text, n |-> n]>>

\* Mutant of Success: the comparison off by one (storages.length >= 0).
Success_atLeastZero(storages) == Len(storages) >= 0

\* Mutant of Success: strict mode, every configured storage must have succeeded.
Success_strict(storages) == Len(storages) = Len(backup.config.storage)

\* const success = storages.length > 0
Success(storages) == Len(storages) > 0

\* return { name, success, storages, storageErrors, size: result.size, duration }
completedResult(name, success, storages, storageErrors, size, duration) ==
  [name |-> name, success |-> success, storages |-> storages,
   storageErrors |-> storageErrors, size |-> <<size>>, duration |-> duration,
   error |-> undefined]

\* catch (error): return { name, success: false, storages: [], storageErrors: [],
\* error: error.message, duration }
failedResult(name, error, duration) ==
  [name |-> name, success |-> FALSE, storages |-> <<>>, storageErrors |-> <<>>,
   size |-> undefined, duration |-> duration, error |-> error]

\* main: const result = await backupDatabase(name, dbConfig); results.push(result),
\* and the loop moves to the next enabled database.
returnToMain(result, fsys) ==
  /\ results' = Append(results, result)
  /\ cur' = cur + 1
  /\ backup' = NoBackup
  /\ fs' = fsys
  /\ now' = now + 1
  /\ pc' = "loop"

\* backupDatabase(name, config) up to the await of the dump producer: the
\* staging directory, the staging file name, the dump process spawned.
backupDatabase_start ==
  /\ pc = "loop"
  /\ cur <= Len(enabledDatabases)
  /\ LET db == enabledDatabases[cur]
     IN /\ backup' = [NoBackup EXCEPT
                        !.name = db.name, !.config = db,
                        !.file = generateBackupFilename(db.name, db.type, now)]
        /\ calls' = [calls EXCEPT ![db.name].backupDatabase = @ + 1,
                                   ![db.name].dump = @ + 1]
  /\ pc' = "dump"
  /\ UNCHANGED <<outstanding, options, config, enabledDatabases, disabledDatabases, cur, results, fs,
                 now, summary, webhook, exitCode, attempts>>

\* backupMySQL / backupPostgres resolve: the staging file is written and its
\* size returned; backupDatabase enters the loop over config.storage.
dump_resolveLeaving(pending) ==
  /\ pc = "dump"
  /\ \E size \in Sizes :
       backup' = [backup EXCEPT !.size = size, !.idx = 1]
  /\ fs' = writeFile(fs, tempDir, backup.file, now)
  /\ pc' = "store"
  /\ calls' = [calls EXCEPT ![backup.name].resolved = @ + 1]
  /\ outstanding' = outstanding \cup pending
  /\ UNCHANGED <<options, config, enabledDatabases, disabledDatabases, cur, results, now,
                 summary, webhook, exitCode, attempts>>

\* A resolution with the staging file written and its stream finished.
dump_resolve == dump_resolveLeaving({})

\* Mutant of dump_reject: the rejection is swallowed and the storages are tried
\* with whatever the dump left.
dump_reject_swallowed ==
  /\ pc = "dump"
  /\ backup' = [backup EXCEPT !.idx = 1]
  /\ fs' = writeFile(fs, tempDir, backup.file, now)
  /\ pc' = "store"
  /\ calls' = [calls EXCEPT ![backup.name].rejected = @ + 1]
  /\ UNCHANGED <<outstanding, options, config, enabledDatabases, disabledDatabases, cur, results, now,
                 summary, webhook, exitCode, attempts>>

\* backupMySQL / backupPostgres reject (exit code, error text, spawn error):
\* fs.createWriteStream may or may not have created the staging file by then.
\* The rejection leaves backupDatabase's try for its catch, which returns the
\* failed result.
dump_rejectLeaving(pending) ==
  /\ pc = "dump"
  /\ \E partial \in BOOLEAN, duration \in 0..MaxDuration :
       returnToMain(
         failedResult(backup.name, Error("dump failed", 0), duration),
         IF partial THEN writeFile(fs, tempDir, backup.file, now) ELSE fs)
  /\ calls' = [calls EXCEPT ![backup.name].rejected = @ + 1]
  /\ outstanding' = outstanding \cup pending
  /\ UNCHANGED <<options, config, enabledDatabases, disabledDatabases, summary, webhook,
                 exitCode, attempts>>

\* A rejection after which nothing of the producer is left running.
dump_reject == dump_rejectLeaving({})

\* Mutant of afterStorageError: the first storage error ends the loop.
afterStorageError_break(idx, n) == n + 1

\* The index of the storage tried after one that raised: the catch inside the
\* loop records the error and the loop goes on.
afterStorageError(idx, n) == idx + 1

\* One pass of for (const storageConfig of config.storage): the store, its
\* rotation, and the push to storages or (in the catch) to storageErrors.
backupDatabase_store ==
  /\ pc = "store"
  /\ backup.idx <= Len(backup.config.storage)
  /\ LET storageConfig == backup.config.storage[backup.idx] IN
     \E ioOk \in BOOLEAN, fault \in RotationFaults :
     \E out \in (IF storageConfig.type = "local"
                 THEN saveToLocal(fs, backup.file, storageConfig, ioOk, fault)
                 ELSE saveToS3(fs, backup.file, storageConfig, ioOk, fault)) :
       /\ fs' = out.fs
       /\ backup' =
            IF out.threw
            THEN [backup EXCEPT
                    !.storageErrors =
                       Append(@, [type |-> storageConfig.type, error |-> out.error]),
                    !.idx = afterStorageError(backup.idx, Len(backup.config.storage))]
            ELSE [backup EXCEPT
                    !.storages =
                       Append(@, [type |-> storageConfig.type, path |-> out.path]),
                    !.idx = @ + 1]
       /\ attempts' = Append(attempts,
            [db |-> backup.name, idx |-> backup.idx, type |-> storageConfig.type,
             stored |-> out.stored, rotationFailed |-> out.rotationFailed,
             threw |-> out.threw, file |-> backup.file, at |-> now,
             loc |-> storageConfig.loc,
             before |-> fs[storageConfig.loc], after |-> out.fs[storageConfig.loc]])
  /\ UNCHANGED <<outstanding, options, config, pc, enabledDatabases, disabledDatabases, cur, results,
                 now, summary, webhook, exitCode, calls>>

\* Mutant of allStoragesFailed: the message counts the storages that succeeded.
allStoragesFailed_countsStorages(storages, storageErrors) ==
  Error("All storage destinations failed", Len(storages))

\* throw new Error(`All storage destinations failed (${storageErrors.length} errors)`)
allStoragesFailed(storages, storageErrors) ==
  Error("All storage destinations failed", Len(storageErrors))

\* After the loop: the staging file is deleted if it exists, success is
\* computed; without any successful storage the throw is caught by the
\* function's own catch, which returns the failed result.  The unlinkSync of
\* the existing staging file is taken to succeed in this action.
backupDatabase_finish ==
  /\ pc = "store"
  /\ backup.idx > Len(backup.config.storage)
  /\ LET cleaned == IF existsSync(fs, tempDir, backup.file)
                    THEN unlinkSync(fs, tempDir, backup.file) ELSE fs
         success == Success(backup.storages)
     IN \E duration \in 0..MaxDuration :
          returnToMain(
            IF success
            THEN completedResult(backup.name, success, backup.storages,
                                 backup.storageErrors, backup.size, duration)
            ELSE failedResult(backup.name,
                              allStoragesFailed(backup.storages,
                                                backup.storageErrors),
                              duration),
            cleaned)
  /\ UNCHANGED <<outstanding, options, config, enabledDatabases, disabledDatabases, summary, webhook,
                 exitCode, calls, attempts>>

\* ------------------------------------------------------- summary and exit

\* results.filter(r => r.success).length
countSuccessful(rs) == Len(SelectSeq(rs, LAMBDA r : r.success))

\* Mutant of countFailed: the results with storage errors are counted.
countFailed_byStorageErrors(rs) ==
  Len(SelectSeq(rs, LAMBDA r : Len(r.storageErrors) > 0))

\* results.filter(r => !r.success).length
countFailed(rs) == Len(SelectSeq(rs, LAMBDA r : ~r.success))

\* results.reduce((sum, r) => sum + (r.duration || 0), 0)
RECURSIVE reduceDuration(_, _)
reduceDuration(rs, sum) ==
  IF rs = <<>> THEN sum
  ELSE reduceDuration(Tail(rs), sum + Head(rs).duration)

\* Mutant of totalDurationOf: only the successful results are summed.
totalDurationOf_successfulOnly(rs) ==
  reduceDuration(SelectSeq(rs, LAMBDA r : r.success), 0)

\* const totalDuration = results.reduce(...)
totalDurationOf(rs) == reduceDuration(rs, 0)

\* main after the loop: the totals of the printed summary (Total is
\* results.length).
\* A line of the printed report: the symbol it starts with, the database, and
\* for a line of a storage its type ("" on the line of the database).
ReportLine(symbol, name, type) == [symbol |-> symbol, name |-> name, type |-> type]

\* The lines main prints for one result: for a success the line of the
\* database (warning symbol when storageErrors is not empty), a line per
\* entry of storages and a line per entry of storageErrors; for a failure the
\* one line with the error.
reportOfResult(result) ==
  IF result.success
  THEN <<ReportLine(IF Len(result.storageErrors) > 0 THEN "warning" ELSE "success",
                    result.name, "")>>
       \o [i \in DOMAIN result.storages |->
             ReportLine("stored", result.name, result.storages[i].type)]
       \o [i \in DOMAIN result.storageErrors |->
             ReportLine("storage error", result.name, result.storageErrors[i].type)]
  ELSE <<ReportLine("failure", result.name, "")>>

\* The report after the totals: the lines of every result, then a line per
\* disabled database.
RECURSIVE reportOfResults(_)
reportOfResults(rs) ==
  IF rs = <<>> THEN <<>>
  ELSE reportOfResult(Head(rs)) \o reportOfResults(Tail(rs))

summaryReport(rs, disabled) ==
  reportOfResults(rs)
  \o [i \in DOMAIN disabled |-> ReportLine("skipped", disabled[i].name, "")]

\* Mutant of main_summary: the webhook is sent whether configured or not.
main_summary_alwaysWebhook ==
  /\ pc = "loop"
  /\ cur > Len(enabledDatabases)
  /\ summary' = [total |-> Len(results),
                 successful |-> countSuccessful(results),
                 failed |-> countFailed(results),
                 skipped |-> Len(disabledDatabases),
                 totalDuration |-> totalDurationOf(results)]
  /\ pc' = "webhook"
  /\ UNCHANGED <<outstanding, options, config, enabledDatabases, disabledDatabases, cur, results,
                 backup, fs, now, webhook, exitCode, calls, attempts>>

main_summary ==
  /\ pc = "loop"
  /\ cur > Len(enabledDatabases)
  /\ summary' = [total |-> Len(results),
                 successful |-> countSuccessful(results),
                 failed |-> countFailed(results),
                 skipped |-> Len(disabledDatabases),
                 totalDuration |-> totalDurationOf(results)]
  /\ pc' = IF config.webhook THEN "webhook" ELSE "exit"
  /\ UNCHANGED <<outstanding, options, config, enabledDatabases, disabledDatabases, cur, results,
                 backup, fs, now, webhook, exitCode, calls, attempts>>

\* (n / 1000).toFixed(2) of a number of milliseconds, and
\* (n / (1024 * 1024)).toFixed(2) of a number of bytes: the decimal with two
\* digits, held as the number of hundredths.
toFixed2(n, unit) == (n * 100 + unit \div 2) \div unit

\* Mutant of payloadResult: a failed result is posted without its error.
payloadResult_noError(r) ==
  [name |-> r.name,
   success |-> r.success,
   sizeMB |-> IF r.size = undefined \/ r.size = <<0>> THEN undefined
              ELSE <<toFixed2(r.size[1], 1024 * 1024)>>,
   durationMs |-> r.duration,
   durationSec |-> toFixed2(r.duration, 1000),
   storages |-> r.storages,
   storageErrors |-> r.storageErrors,
   path |-> IF Len(r.storages) > 0 THEN <<r.storages[1].path>> ELSE undefined,
   error |-> undefined]

\* Mutant of payloadResult: path is the location of the last storage.
payloadResult_lastPath(r) ==
  [name |-> r.name,
   success |-> r.success,
   sizeMB |-> IF r.size = undefined \/ r.size = <<0>> THEN undefined
              ELSE <<toFixed2(r.size[1], 1024 * 1024)>>,
   durationMs |-> r.duration,
   durationSec |-> toFixed2(r.duration, 1000),
   storages |-> r.storages,
   storageErrors |-> r.storageErrors,
   path |-> IF Len(r.storages) > 0 THEN <<r.storages[Len(r.storages)].path>>
            ELSE undefined,
   error |-> r.error]

\* results.map(r => ({ name, success, sizeMB, durationMs, durationSec,
\* storages, storageErrors, path, error })): r.size ? ... : null, r.storages || [],
\* r.storageErrors || [], the first storage path or null, r.error || null.
payloadResult(r) ==
  [name |-> r.name,
   success |-> r.success,
   sizeMB |-> IF r.size = undefined \/ r.size = <<0>> THEN undefined
              ELSE <<toFixed2(r.size[1], 1024 * 1024)>>,
   durationMs |-> r.duration,
   durationSec |-> toFixed2(r.duration, 1000),
   storages |-> r.storages,
   storageErrors |-> r.storageErrors,
   path |-> IF Len(r.storages) > 0 THEN <<r.storages[1].path>> ELSE undefined,
   error |-> r.error]

\* const webhookPayload = { timestamp, summary, summaryText, results,
\* skippedDatabases }; summaryText is the printed report of the same numbers
\* and is left out.
webhookPayload ==
  [timestamp |-> now,
   summary |-> [total |-> Len(results),
                successful |-> summary.successful,
                failed |-> summary.failed,
                skipped |-> summary.skipped,
                totalDurationMs |-> summary.totalDuration,
                totalDurationSec |-> toFixed2(summary.totalDuration, 1000)],
   results |-> [i \in DOMAIN results |-> payloadResult(results[i])],
   skippedDatabases |->
     [i \in DOMAIN disabledDatabases |-> disabledDatabases[i].name]]

\* What the webhook endpoint does with the POST.
WebhookOutcomes == {"sent", "status not ok", "network error"}

\* Mutant of sendWebhook: the catch rethrows, so a failed delivery reaches
\* main's catch, which exits with code 1.
sendWebhook_rethrows ==
  /\ pc = "webhook"
  /\ \E outcome \in WebhookOutcomes :
       /\ webhook' = [outcome |-> outcome, payload |-> <<webhookPayload>>]
       /\ IF outcome = "sent"
          THEN pc' = "exit" /\ exitCode' = exitCode
          ELSE pc' = "done" /\ exitCode' = <<1>>
  /\ UNCHANGED <<outstanding, options, config, enabledDatabases, disabledDatabases, cur, results,
                 backup, fs, now, summary, calls, attempts>>

\* await sendWebhook(config.webhook, webhookPayload): fetch, the check of
\* response.ok, and the catch that logs and does not rethrow.
sendWebhook ==
  /\ pc = "webhook"
  /\ \E outcome \in WebhookOutcomes :
       webhook' = [outcome |-> outcome, payload |-> <<webhookPayload>>]
  /\ pc' = "exit"
  /\ UNCHANGED <<outstanding, options, config, enabledDatabases, disabledDatabases, cur, results,
                 backup, fs, now, summary, exitCode, calls, attempts>>

\* Mutant of exitStatus: skipped databases count as failures.
exitStatus_countsSkipped(failed) ==
  IF failed + summary.skipped > 0 THEN 1 ELSE 0

\* if (failed > 0) process.exit(1) else process.exit(0)
exitStatus(failed) == IF failed > 0 THEN 1 ELSE 0

main_exit ==
  /\ pc = "exit"
  /\ exitCode' = <<exitStatus(summary.failed)>>
  /\ pc' = "done"
  /\ UNCHANGED <<outstanding, options, config, enabledDatabases, disabledDatabases, cur, results,
                 backup, fs, now, summary, webhook, calls, attempts>>

Next ==
  \/ main_loadConfig
  \/ backupDatabase_start
  \/ dump_resolve
  \/ dump_reject
  \/ backupDatabase_store
  \/ backupDatabase_finish
  \/ main_summary
  \/ sendWebhook
  \/ main_exit

Spec == Init /\ [][Next]_vars

\* ------------------------------------------- the dump producers by event

\* The exit codes of a dump process and the texts it leaves on stderr.
ExitCodes == {0, 2}
StderrTexts ==
  {"", "-- Warning: skipping the data of table mysql.event",
   "mysqldump: Got error: 2002: Can't connect to server",
   "ERROR 1045 (28000): Access denied",
   "pg_dump: error: connection to server failed"}

\* stderr.includes('ERROR')
includesERROR(text) == text = "ERROR 1045 (28000): Access denied"

\* stderr.toLowerCase().includes('error:')
includesErrorColon(text) ==
  text \in {"mysqldump: Got error: 2002: Can't connect to server",
            "pg_dump: error: connection to server failed"}

\* if (dbType === 'mysql' || dbType === 'mariadb') backupMySQL, else if
\* (dbType === 'postgres' || dbType === 'postgresql') backupPostgres
producerOf(dbConfig) ==
  IF toLowerCase(dbConfig.type) \in {"mysql", "mariadb"}
  THEN "backupMySQL" ELSE "backupPostgres"

\* The dump process (mysqldump / mariadb-dump or pg_dump) exits with a code,
\* having written a text to stderr; no handler has run yet.
dumpProcess_exit ==
  /\ pc = "dump"
  /\ backup.process.code = undefined
  /\ \E code \in ExitCodes, text \in StderrTexts :
       backup' = [backup EXCEPT !.process.code = <<code>>, !.process.text = text]
  /\ UNCHANGED <<outstanding, options, config, pc, enabledDatabases, disabledDatabases, cur, results,
                 fs, now, summary, webhook, exitCode, calls, attempts>>

\* The process cannot be spawned: the 'error' handler rejects, from
\* process.nextTick, while fs.createWriteStream(backupPath) (and gzip, in
\* backupMySQL) has not ended.
dumpProcess_error ==
  /\ backup.process.code = undefined
  /\ dump_rejectLeaving({backup.file})

\* stderr.on('data'): stderr += data.toString()
dumpProcess_stderr ==
  /\ pc = "dump"
  /\ backup.process.code # undefined
  /\ ~backup.process.closed
  /\ backup.process.stderr # backup.process.text
  /\ backup' = [backup EXCEPT !.process.stderr = backup.process.text]
  /\ UNCHANGED <<outstanding, options, config, pc, enabledDatabases, disabledDatabases, cur, results,
                 fs, now, summary, webhook, exitCode, calls, attempts>>

\* Mutant of backupMySQL_finish: the handler resolves on a clean stderr and
\* settles nothing otherwise.
backupMySQL_finish_noReject ==
  /\ pc = "dump"
  /\ producerOf(backup.config) = "backupMySQL"
  /\ backup.process.code # undefined
  /\ ~includesERROR(backup.process.stderr)
  /\ dump_resolve

\* backupMySQL, writeStream.on('finish'): gzip has ended after the dump
\* process closed its stdout; rejects when the stderr collected so far has
\* 'ERROR' in it and resolves otherwise.
backupMySQL_finish ==
  /\ pc = "dump"
  /\ producerOf(backup.config) = "backupMySQL"
  /\ backup.process.code # undefined
  /\ IF includesERROR(backup.process.stderr) THEN dump_reject ELSE dump_resolve

\* backupMySQL, mysqldump.on('close'): emitted after the process has ended
\* and its stdio streams are closed; rejects on a non-zero code and does
\* nothing otherwise.  'finish' has not been emitted (it settles the promise):
\* gzip and the write stream are still at work on the staging file.
backupMySQL_close ==
  /\ pc = "dump"
  /\ producerOf(backup.config) = "backupMySQL"
  /\ backup.process.code # undefined
  /\ backup.process.stderr = backup.process.text
  /\ ~backup.process.closed
  /\ IF backup.process.code # <<0>>
     THEN dump_rejectLeaving({backup.file})
     ELSE /\ backup' = [backup EXCEPT !.process.closed = TRUE]
          /\ UNCHANGED <<outstanding, options, config, pc, enabledDatabases, disabledDatabases, cur,
                         results, fs, now, summary, webhook, exitCode, calls,
                         attempts>>

\* backupPostgres, pgdump.on('close'): rejects on a non-zero code or when the
\* lowercased stderr has 'error:' in it, resolves otherwise.  'close' of the
\* process says that pg_dump has ended and its stdout was read to the end;
\* the write stream the stdout is piped into is not waited for, and the last
\* chunks may or may not have reached the staging file by then.
backupPostgres_close ==
  /\ pc = "dump"
  /\ producerOf(backup.config) = "backupPostgres"
  /\ backup.process.code # undefined
  /\ backup.process.stderr = backup.process.text
  /\ IF backup.process.code # <<0>> \/ includesErrorColon(backup.process.stderr)
     THEN dump_reject
     ELSE \E flushed \in BOOLEAN :
            dump_resolveLeaving(IF flushed THEN {} ELSE {backup.file})

\* writeStream 'finish' of a pipeline left running: the staging file is
\* written and closed (a file that was there when the producer resolved and
\* has been unlinked since does not come back); the handler's reject /
\* resolve act on a settled promise and change nothing.  process.exit ends
\* the write stream.
writeStream_lateFinish ==
  /\ exitCode = undefined
  /\ \E f \in outstanding :
       /\ fs' = IF calls[f.db].resolved > 0 /\ ~existsSync(fs, tempDir, f)
                THEN fs ELSE writeFile(fs, tempDir, f, now)
       /\ outstanding' = outstanding \ {f}
  /\ UNCHANGED <<options, config, pc, enabledDatabases, disabledDatabases, cur, results,
                 backup, now, summary, webhook, exitCode, calls, attempts>>

NextByEvent ==
  \/ main_loadConfig
  \/ backupDatabase_start
  \/ dumpProcess_exit
  \/ dumpProcess_error
  \/ dumpProcess_stderr
  \/ backupMySQL_finish
  \/ backupMySQL_close
  \/ backupPostgres_close
  \/ writeStream_lateFinish
  \/ backupDatabase_store
  \/ backupDatabase_finish
  \/ main_summary
  \/ sendWebhook
  \/ main_exit

\* The runs with the dump producers followed event by event, on the
\* configurations with a webhook.
InitByEvent == Init /\ config.webhook

SpecByEvent == InitByEvent /\ [][NextByEvent]_vars

\* After the loop, fs.unlinkSync(backupPath) of the existing staging file
\* raises (index.js:93-95, inside the try): the catch of backupDatabase
\* returns the failed result, the staging file stays.
backupDatabase_cleanupFails ==
  /\ pc = "store"
  /\ backup.idx > Len(backup.config.storage)
  /\ existsSync(fs, tempDir, backup.file)
  /\ \E duration \in 0..MaxDuration :
       returnToMain(failedResult(backup.name, Error("unlink failed", 0), duration), fs)
  /\ UNCHANGED <<outstanding, options, config, enabledDatabases, disabledDatabases, summary,
                 webhook, exitCode, calls, attempts>>

NextWithCleanupFault == Next \/ backupDatabase_cleanupFails

\* The runs in which the delete of the staging file can raise.
SpecWithCleanupFault == Init /\ [][NextWithCleanupFault]_vars

NextFromStart == main_start \/ Next

\* The runs from the start of main, on the files of ConfigFiles.
SpecLoad == InitLoad /\ [][NextFromStart]_vars

NextFromStartByEvent == main_start \/ NextByEvent

\* The runs from the start of main with the producers by event, in which
\* no step that can be taken is put off for ever: every process ends, every
\* request is answered, every event is handled.
SpecLive ==
  InitLoad /\ [][NextFromStartByEvent]_vars /\ WF_vars(NextFromStartByEvent)

\* The runs started with the command lines of OptionSets.
SpecOptions == InitOptions /\ [][Next]_vars

\* The runs on the configurations of TypeConfigs, the producers by event.
SpecTypes == InitTypes /\ [][NextByEvent]_vars

\* An error raised in backupDatabase outside its try (the statements before
\* it, index.js:26-34, or those of its catch) leaves the call.  main awaits
\* the call inside its own try only, whose catch prints the fatal error and
\* exits with code 1.
backupDatabase_escapes ==
  /\ pc = "loop"
  /\ cur <= Len(enabledDatabases)
  /\ calls' = [calls EXCEPT ![enabledDatabases[cur].name].backupDatabase = @ + 1,
                             ![enabledDatabases[cur].name].escaped = @ + 1]
  /\ exitCode' = <<1>>
  /\ pc' = "done"
  /\ UNCHANGED <<outstanding, options, config, enabledDatabases, disabledDatabases, cur, results,
                 backup, fs, now, summary, webhook, attempts>>

NextWithFault == Next \/ backupDatabase_escapes

\* The runs in which backupDatabase can raise outside its try.
SpecWithFault == Init /\ [][NextWithFault]_vars

\* The runs on the rotation configurations.
SpecRotation == InitRotation /\ [][Next]_vars

\* The runs on dbP.
SpecPaging == InitPaging /\ [][Next]_vars

\* The runs on dbZ.
SpecDestinations == InitDestinations /\ [][Next]_vars

\* The program on dbF, with artifacts dated before or after the run.
SpecSkew == InitSkew /\ [][Next]_vars

\* The program on two databases that store at the same places.
SpecShared == InitShared /\ [][Next]_vars

\* ================================================================== claims

\* The databases of the configuration, by name.
configured == {config.databases[i] : i \in DOMAIN config.databases}
descriptor(n) == CHOOSE d \in configured : d.name = n

\* The indices of the results returned for database n.
resultsFor(n) == {i \in DOMAIN results : results[i].name = n}

\* The logged store attempts of database n, and those for its k-th storage.
attemptsFor(n) == {i \in DOMAIN attempts : attempts[i].db = n}
attemptsAt(n, k) == {i \in attemptsFor(n) : attempts[i].idx = k}

\* The staging files of database n that are in the staging directory.
stagingFilesOf(n) == {f \in fs[tempDir] : f.name.db = n}

\* C1: every Database Result has success = (its successful-destination list is
\* not empty), whatever the dump and the destinations did.
C1_SuccessIffStorages ==
  \A i \in DOMAIN results :
    results[i].success = (Len(results[i].storages) > 0)

\* C1 witness: a run returned a partial success (some storage failed), a
\* result whose storages all failed, and a result whose dump failed.
C1_Witness ==
  /\ \E i \in DOMAIN results :
       results[i].success /\ Len(results[i].storageErrors) > 0
  /\ \E i \in DOMAIN results :
       ~results[i].success /\ attemptsFor(results[i].name) # {}
  /\ \E i \in DOMAIN results : calls[results[i].name].rejected = 1

\* C2: when the dump succeeded for a database with N storages, the store is
\* invoked exactly once for each of the N, in the loop as far as it got and for
\* all N once the result is returned, whichever earlier storages failed.
C2_EveryStorageAttemptedOnce ==
  \A n \in Names :
    calls[n].resolved > 0 =>
      \A k \in DOMAIN descriptor(n).storage :
        Cardinality(attemptsAt(n, k)) =
          IF resultsFor(n) # {} \/ (backup.name = n /\ k < backup.idx)
          THEN 1 ELSE 0

\* C2 witness: a database whose first storage failed was returned with its
\* last storage attempted.
C2_Witness ==
  \E n \in Names :
    /\ resultsFor(n) # {}
    /\ Len(descriptor(n).storage) = 3
    /\ \E i \in attemptsAt(n, 1) : attempts[i].threw
    /\ \E i \in attemptsAt(n, 2) : attempts[i].threw
    /\ attemptsAt(n, 3) # {}

\* C3: when the dump producer fails for a database, no store is invoked for it
\* and its result has success = false, an error, and empty storages and
\* storageErrors.
C3_DumpFailureStopsDatabase ==
  \A n \in Names :
    calls[n].rejected > 0 =>
      /\ attemptsFor(n) = {}
      /\ resultsFor(n) # {}
      /\ \A i \in resultsFor(n) :
           /\ results[i].success = FALSE
           /\ results[i].error # undefined
           /\ results[i].storages = <<>>
           /\ results[i].storageErrors = <<>>

\* C3 witness: a run ended in which the dump of a database with three storages
\* was rejected.
C3_Witness ==
  /\ pc = "done"
  /\ \E n \in Names :
       calls[n].rejected = 1 /\ Len(descriptor(n).storage) = 3

\* C4: after backupDatabase returned, whatever the outcome, the staging
\* artifact of that database is not in the staging directory.
C4_StagingArtifactDeleted ==
  \A i \in DOMAIN results : stagingFilesOf(results[i].name) = {}

\* The result of database n, returned after exactly one of its N storages
\* failed and the N-1 others succeeded, is a success with one entry in
\* storageErrors and N-1 in storages, and the staging artifact is gone.
oneFailureIsPartialSuccess(n) ==
  LET N == Len(descriptor(n).storage)
      failed == {i \in attemptsFor(n) : attempts[i].threw}
      succeeded == {i \in attemptsFor(n) : ~attempts[i].threw}
  IN (resultsFor(n) # {} /\ Cardinality(failed) = 1
                         /\ Cardinality(succeeded) = N - 1) =>
       /\ stagingFilesOf(n) = {}
       /\ \A i \in resultsFor(n) :
            /\ results[i].success = TRUE
            /\ Len(results[i].storageErrors) = 1
            /\ Len(results[i].storages) = N - 1

enabledInConfig == {d \in configured : d.enabled}
disabledInConfig == {d \in configured : ~d.enabled}

\* The exit code the results call for: 1 when the result of some enabled
\* database is a failure, 0 otherwise.
expectedExit ==
  IF \E d \in enabledInConfig : \E i \in resultsFor(d.name) : ~results[i].success
  THEN 1 ELSE 0

\* C6: at the end of main the exit code is 1 if some enabled database has a
\* result with success = false and 0 otherwise; a partial success counts as a
\* success, and disabled databases do not change the exit code.
C6_ExitCode ==
  pc = "done" =>
    /\ exitCode = <<expectedExit>>
    /\ \A d \in enabledInConfig : resultsFor(d.name) # {}

\* C6 witness: a run with a disabled database and a partial success (and no
\* failed database) ended with exit code 0.
C6_Witness ==
  /\ pc = "done"
  /\ exitCode = <<0>>
  /\ disabledInConfig # {}
  /\ \E i \in DOMAIN results :
       results[i].success /\ Len(results[i].storageErrors) > 0

\* The sum of the durations of the results.
RECURSIVE sumOfDurations(_)
sumOfDurations(is) ==
  IF is = {} THEN 0
  ELSE LET i == CHOOSE j \in is : TRUE
       IN results[i].duration + sumOfDurations(is \ {i})

\* C7: the totals of the summary: total = the number of enabled databases,
\* successful = the number of results with success = true, failed = enabled -
\* successful, skipped = the number of disabled databases, totalDuration = the
\* sum of the durations of the enabled databases' results.
C7_SummaryTotals ==
  pc \in {"webhook", "exit", "done"} =>
    /\ summary.total = Cardinality(enabledInConfig)
    /\ summary.successful =
         Cardinality({i \in DOMAIN results : results[i].success})
    /\ summary.failed = Cardinality(enabledInConfig) - summary.successful
    /\ summary.skipped = Cardinality(disabledInConfig)
    /\ summary.totalDuration =
         sumOfDurations({i \in DOMAIN results :
                           \E d \in enabledInConfig : d.name = results[i].name})

\* C7 witness: a summary with successes, a failure that took time, and a
\* skipped database.
C7_Witness ==
  /\ pc = "exit"
  /\ summary.successful = 2
  /\ summary.failed = 1
  /\ summary.skipped = 1
  /\ \E i \in DOMAIN results : ~results[i].success /\ results[i].duration > 0

\* C8: backupDatabase, the dump producer and the storages are never invoked for
\* a disabled database; it has no result, and once the summary is made it is
\* in the skipped list only and the total duration is the sum over the
\* results, none of which is its own.
C8_DisabledNeverBackedUp ==
  \A d \in disabledInConfig :
    /\ calls[d.name].backupDatabase = 0
    /\ calls[d.name].dump = 0
    /\ attemptsFor(d.name) = {}
    /\ resultsFor(d.name) = {}
    /\ backup.name # d.name
    /\ pc # "loadConfig" =>
         /\ \E i \in DOMAIN disabledDatabases : disabledDatabases[i] = d
         /\ \A i \in DOMAIN enabledDatabases : enabledDatabases[i] # d
    /\ pc \in {"webhook", "exit", "done"} =>
         /\ summary.skipped >= 1
         /\ summary.totalDuration = sumOfDurations(DOMAIN results)

\* C8 witness: a run ended in which a disabled database stands between two
\* enabled ones that were both backed up.
C8_Witness ==
  /\ pc = "done"
  /\ Len(config.databases) = 3
  /\ ~config.databases[2].enabled
  /\ Len(results) = 2
  /\ summary.totalDuration > 0

\* C9: a store that succeeded is recorded as a success in storages even when
\* the rotation that follows it raised: in the loop, storages has one entry for
\* every storage of the database whose artifact was stored.
C9_RotationFailureKeepsSuccess ==
  pc = "store" =>
    Len(backup.storages) =
      Cardinality({i \in attemptsFor(backup.name) : attempts[i].stored})

\* Whether the webhook delivery failed.
webhookFailed == webhook.outcome \in {"status not ok", "network error"}

\* C10: a webhook delivery that fails changes neither the exit code nor a
\* result: the delivery step leaves the results and the summary as they are
\* and goes on to the exit, and the exit code after a failed delivery is the
\* one the results call for.
C10_WebhookFailureIgnored ==
  /\ [][pc = "webhook" =>
          /\ results' = results
          /\ summary' = summary
          /\ pc' = "exit"
          /\ exitCode' = undefined]_vars
  /\ [](pc = "done" /\ webhookFailed => exitCode = <<expectedExit>>)

\* C10 witness: a run whose webhook delivery failed ended with exit code 0.
C10_Witness ==
  /\ pc = "done"
  /\ webhookFailed
  /\ exitCode = <<0>>
  /\ results # <<>>

\* C11: when the dump succeeded and every configured storage of a database
\* failed, its result is a failure (success = false) whose error message gives
\* the number of failed storages, which is the number of configured storages.
C11_AllDestinationsFailed ==
  \A d \in configured :
    ( /\ calls[d.name].resolved > 0
      /\ resultsFor(d.name) # {}
      /\ \A i \in attemptsFor(d.name) : attempts[i].threw ) =>
        \A i \in resultsFor(d.name) :
          /\ results[i].success = FALSE
          /\ results[i].error =
               Error("All storage destinations failed", Len(d.storage))

\* C11 witness: a database with three storages was returned after its dump
\* succeeded and its three stores raised.
C11_Witness ==
  \E d \in configured :
    /\ Len(d.storage) = 3
    /\ calls[d.name].resolved = 1
    /\ resultsFor(d.name) # {}
    /\ Cardinality({i \in attemptsFor(d.name) : attempts[i].threw}) = 3

\* The entry of database n in the results of the posted payload.
postedResultsFor(n) ==
  {i \in DOMAIN webhook.payload[1].results :
     webhook.payload[1].results[i].name = n}

\* C12: every store attempt that failed during the run is an entry of
\* storageErrors of its database's result in the posted webhook payload, also
\* when all the storages of the database failed: the entries are as many as
\* the failed attempts, and each failed attempt has one of its type.
C12_StorageErrorsInPayload ==
  webhook.payload # undefined =>
    \A d \in enabledInConfig :
      \A i \in postedResultsFor(d.name) :
        LET posted == webhook.payload[1].results[i].storageErrors
            failed == {a \in attemptsFor(d.name) : attempts[a].threw}
        IN /\ Len(posted) = Cardinality(failed)
           /\ \A a \in failed :
                \E e \in DOMAIN posted : posted[e].type = attempts[a].type

\* For a logged store attempt a: the storage it went to, the artifacts the
\* rotation found at the destination (those that were there and the one just
\* stored), those it left and those it deleted.
storageOf(a) == descriptor(a.db).storage[a.idx]
listedBy(a) ==
  {f \in a.before : isBackupFile(f) /\ f.name # a.file} \cup {File(a.file, a.at)}
keptBy(a) == {f \in a.after : isBackupFile(f)}
deletedBy(a) == listedBy(a) \ a.after

\* The store attempts whose rotation pass ran to its end.
rotated == {i \in DOMAIN attempts : attempts[i].stored /\ ~attempts[i].rotationFailed}

\* C13: a local rotation pass over more than keep artifacts deletes the
\* entries after the first keep of the list sorted newest first: exactly keep
\* artifacts remain, each at least as recently modified as every deleted one;
\* over keep artifacts or fewer it deletes nothing.
C13_LocalRotationKeepsNewest ==
  \A i \in rotated :
    LET a == attempts[i] IN
    a.type = "local" =>
      /\ keptBy(a) \subseteq listedBy(a)
      /\ IF Cardinality(listedBy(a)) > storageOf(a).keep
         THEN /\ Cardinality(keptBy(a)) = storageOf(a).keep
              /\ \A k \in keptBy(a), d \in deletedBy(a) : k.mtime >= d.mtime
         ELSE deletedBy(a) = {}

\* C13 witness: a local rotation pass found two artifacts more than keep, of
\* distinct modification times, and deleted two.
C13_Witness ==
  \E i \in rotated :
    LET a == attempts[i] IN
    /\ a.type = "local"
    /\ Cardinality(listedBy(a)) = storageOf(a).keep + 2
    /\ Cardinality(deletedBy(a)) = 2
    /\ \A f, g \in listedBy(a) : f # g => f.mtime # g.mtime

\* A rotation pass of the storage of attempt a over the files the attempt
\* left, with no new artifact and no fault.
secondPass(a) ==
  LET left == [fs EXCEPT ![storageOf(a).loc] = a.after]
  IN IF a.type = "local"
     THEN rotateLocalBackups(left, storageOf(a).loc, storageOf(a).keep, NoFault)
     ELSE rotateS3Backups(left, storageOf(a).loc, storageOf(a).keep, NoFault)

\* The second pass deletes nothing.
secondPassIsNoOp(a) ==
  \A r \in secondPass(a) : ~r.threw /\ r.fs[storageOf(a).loc] = a.after

\* The number of artifacts the pass of attempt a found beyond keep.
excess(a) == Cardinality(listedBy(a)) - storageOf(a).keep

C15_RotationPerDestinationSpec ==
  [][ (pc = "store" /\ backup.idx <= Len(backup.config.storage)) =>
        \A j \in DOMAIN backup.config.storage :
          j # backup.idx =>
            fs'[backup.config.storage[j].loc] = fs[backup.config.storage[j].loc]
    ]_vars

\* The position of database n in the configuration.
positionOf(n) == CHOOSE i \in DOMAIN config.databases : config.databases[i].name = n

\* The k-th smallest element of a set of numbers.
nth(S, k) == CHOOSE x \in S : Cardinality({y \in S : y < x}) = k - 1

\* The indices of the storages of database n whose attempt raised / returned.
failedStorages(n) == {attempts[i].idx : i \in {j \in attemptsFor(n) : attempts[j].threw}}
succeededStorages(n) == {attempts[i].idx : i \in {j \in attemptsFor(n) : ~attempts[j].threw}}

\* The lists storages and storageErrors hold, in the configured order, the
\* storages of d that succeeded and those that failed.
listsInConfiguredOrder(d, storages, storageErrors) ==
  /\ Len(storages) = Cardinality(succeededStorages(d.name))
  /\ \A k \in DOMAIN storages :
       LET storage == d.storage[nth(succeededStorages(d.name), k)]
       IN storages[k].type = storage.type /\ storages[k].path[1] = storage.loc
  /\ Len(storageErrors) = Cardinality(failedStorages(d.name))
  /\ \A k \in DOMAIN storageErrors :
       storageErrors[k].type = d.storage[nth(failedStorages(d.name), k)].type

\* C16: the storages of a database are attempted in the configured order, and
\* the lists storages and storageErrors (of the call in progress and of a
\* successful result) keep that order; the results, and the skipped list, are
\* in the order of the configuration after filtering.
C16_ConfiguredOrderPreserved ==
  /\ \A i, j \in DOMAIN attempts :
       (i < j /\ attempts[i].db = attempts[j].db) => attempts[i].idx < attempts[j].idx
  /\ pc = "store" =>
       listsInConfiguredOrder(backup.config, backup.storages, backup.storageErrors)
  /\ \A i \in DOMAIN results :
       results[i].success =>
         listsInConfiguredOrder(descriptor(results[i].name),
                                results[i].storages, results[i].storageErrors)
  /\ \A i, j \in DOMAIN results :
       i < j => positionOf(results[i].name) < positionOf(results[j].name)
  /\ \A i, j \in DOMAIN disabledDatabases :
       i < j => positionOf(disabledDatabases[i].name) < positionOf(disabledDatabases[j].name)
  /\ \A i, j \in DOMAIN enabledDatabases :
       i < j => positionOf(enabledDatabases[i].name) < positionOf(enabledDatabases[j].name)
  /\ webhook.payload # undefined =>
       webhook.payload[1].skippedDatabases =
         [i \in DOMAIN disabledDatabases |-> disabledDatabases[i].name]

\* C16 witness: a run with a skipped database ended with three results in
\* the order of the configuration, one with two storages in storages and one
\* with its first storage in storages and its second in storageErrors.
C16_Witness ==
  /\ pc = "done"
  /\ Len(results) = 3
  /\ Len(disabledDatabases) = 1
  /\ Len(results[1].storages) = 2
  /\ succeededStorages(results[2].name) = {1}
  /\ failedStorages(results[2].name) = {2}
  /\ results[3].success

\* C17: an error that leaves backupDatabase does not abort the run: when the
\* run is over, the database it was raised for has a failed result, every
\* enabled database has a result, and the summary counts them all.
C17_EscapedFaultBecomesFailedResult ==
  pc = "done" =>
    /\ \A d \in enabledInConfig :
         /\ resultsFor(d.name) # {}
         /\ calls[d.name].escaped > 0 =>
              \A i \in resultsFor(d.name) : ~results[i].success
    /\ summary.total = Cardinality(enabledInConfig)

\* C18: a dump process that exits with a non-zero code is never reported as a
\* successful dump, in whichever order 'close' and 'finish' are handled: while
\* backupDatabase is past the dump (in its loop over the storages), the exit
\* code of the dump process is 0.
C18_NonZeroExitRejects ==
  pc = "store" => backup.process.code = <<0>>

\* The run of the scenario: A, B, C enabled and D disabled; A stored at both
\* of its storages, the dump of B was rejected, C stored at its one local
\* storage; the run is over.
scenarioABCD ==
  /\ pc = "done"
  /\ config.databases = <<dbA, dbB, dbC, dbD>>
  /\ succeededStorages("A") = {1, 2}
  /\ calls["B"].rejected = 1
  /\ succeededStorages("C") = {1}

\* C19: the run of the scenario ends with total = 3, successful = 2,
\* failed = 1, skipped = 1 and exit code 1.
C19_EndToEndSummary ==
  scenarioABCD =>
    /\ summary.total = 3
    /\ summary.successful = 2
    /\ summary.failed = 1
    /\ summary.skipped = 1
    /\ exitCode = <<1>>

\* C19 witness: the run of the scenario is over and its webhook was posted.
C19_Witness ==
  /\ scenarioABCD
  /\ webhook.outcome = "sent"
  /\ Len(results) = 3

\* The artifacts at the local storage of dbE.
artifactsOfE == {f \in fs["/backups/e"] : isBackupFile(f)}

\* C20: one database with one local storage that holds 12 earlier artifacts
\* and keeps 10: after a successful backup exactly 10 artifacts are at the
\* destination, the one just stored among them, and the deleted ones are the
\* oldest of the 12 (the three oldest: 13 artifacts were rotated to 10).
C20_TwelvePriorKeepTen ==
  (config.databases = <<dbE>> /\ results # <<>> /\ results[1].success) =>
    /\ Cardinality(artifactsOfE) = 10
    /\ \E f \in artifactsOfE : f.name = attempts[1].file /\ f.mtime = attempts[1].at
    /\ OldFiles(dbE, 12) \ artifactsOfE = OldFiles(dbE, 3)
    /\ artifactsOfE \ OldFiles(dbE, 12) = {File(attempts[1].file, attempts[1].at)}

\* C20 witness: the run on dbE ended with a successful backup and exit code 0,
\* the staging file deleted.
C20_Witness ==
  /\ config.databases = <<dbE>>
  /\ pc = "done"
  /\ exitCode = <<0>>
  /\ results[1].success
  /\ results[1].storages[1].path = <<"/backups/e", attempts[1].file>>
  /\ fs[tempDir] = {}

\* C21: the extension of the staging file agrees with the dump producer that
\* is invoked, for every accepted type in any letter case: it is 'dump' when
\* backupPostgres is used and 'sql.gz' when backupMySQL is used.
C21_ExtensionAgreesWithProducer ==
  pc = "dump" =>
    backup.file.ext =
      IF producerOf(backup.config) = "backupPostgres" THEN "dump" ELSE "sql.gz"

\* The fields of the pieces of a text, in order.
fieldsOf(text) == [i \in DOMAIN text |-> text[i].field]

\* C22: the name of every backup file is {name}_{YYYY-MM-DD}_{HH-MM-SS}.{ext}:
\* between the name and the extension stand a date and a time whose last
\* component is the seconds.
C22_TimestampToTheSecond ==
  pc \in {"dump", "store"} =>
    fieldsOf(backup.file.ts) =
      <<"date", "_", "hours", "-", "minutes", "-", "seconds">>

\* The results of the posted payload.
posted == webhook.payload[1].results

\* The location the first storage of database n that succeeded returned.
firstSuccessfulLocation(n) ==
  LET k == nth(succeededStorages(n), 1)
      a == attempts[CHOOSE i \in attemptsAt(n, k) : TRUE]
  IN <<descriptor(n).storage[k].loc, a.file>>

\* C23: in the posted payload the path of a result is the location of the
\* first storage, in the order of the attempts, that succeeded, and null when
\* no storage of the database succeeded.
C23_LegacyPathFirstSuccessful ==
  webhook.payload # undefined =>
    \A i \in DOMAIN posted :
      posted[i].path =
        IF succeededStorages(posted[i].name) = {} THEN undefined
        ELSE <<firstSuccessfulLocation(posted[i].name)>>

\* C23 witness: a payload was posted with a result whose first storage failed
\* and whose second and third succeeded, the path being that of the second.
C23_Witness ==
  /\ webhook.payload # undefined
  /\ \E i \in DOMAIN posted :
       /\ failedStorages(posted[i].name) = {1}
       /\ succeededStorages(posted[i].name) = {2, 3}
       /\ posted[i].path = <<posted[i].storages[1].path>>
       /\ posted[i].path[1][1] = descriptor(posted[i].name).storage[2].loc

\* C24: the posted payload reproduces the run summary: summary.total is the
\* number of its results, successful and failed are the numbers of its results
\* with success true and false, skipped is the length of skippedDatabases, the
\* totals are those of the printed summary, and each entry has the name, the
\* success and the error of the result of the same place.
C24_PayloadReproducesSummary ==
  webhook.payload # undefined =>
    LET p == webhook.payload[1] IN
    /\ p.summary.total = Len(p.results)
    /\ p.summary.successful =
         Cardinality({i \in DOMAIN p.results : p.results[i].success})
    /\ p.summary.failed =
         Cardinality({i \in DOMAIN p.results : ~p.results[i].success})
    /\ p.summary.skipped = Len(p.skippedDatabases)
    /\ p.summary.total = summary.total
    /\ p.summary.successful = summary.successful
    /\ p.summary.failed = summary.failed
    /\ p.summary.skipped = summary.skipped
    /\ DOMAIN p.results = DOMAIN results
    /\ \A i \in DOMAIN results :
         /\ p.results[i].name = results[i].name
         /\ p.results[i].success = results[i].success
         /\ p.results[i].error = results[i].error

\* C24 witness: a payload was posted for a run with two successes, a failure
\* with its error, and a skipped database.
C24_Witness ==
  /\ webhook.payload # undefined
  /\ webhook.payload[1].summary.successful = 2
  /\ webhook.payload[1].summary.failed = 1
  /\ webhook.payload[1].skippedDatabases = <<"D">>
  /\ \E i \in DOMAIN posted : ~posted[i].success /\ posted[i].error # undefined

\* C25: in a run started with --list no backup is performed: backupDatabase
\* is never invoked.
C25_ListPerformsNoBackup ==
  options.list => \A n \in Names : calls[n].backupDatabase = 0

\* The names given with --database.
requestedNames == {options.database[i] : i \in DOMAIN options.database}

\* C26: with --database names given, backupDatabase is invoked only for
\* enabled databases of a requested name; a database not requested is neither
\* backed up nor in the skipped list nor counted in the summary; and when no
\* configured database has a requested name the process exits with code 1
\* before any backup.
C26_OnlyRequestedDatabases ==
  options.database # <<>> =>
    /\ \A d \in configured :
         calls[d.name].backupDatabase > 0 => d.enabled /\ d.name \in requestedNames
    /\ \A d \in configured :
         d.name \notin requestedNames =>
           /\ calls[d.name].backupDatabase = 0
           /\ resultsFor(d.name) = {}
           /\ \A i \in DOMAIN disabledDatabases : disabledDatabases[i] # d
    /\ pc \in {"webhook", "exit", "done"} /\ summary # NoSummary =>
         /\ summary.skipped =
              Cardinality({d \in disabledInConfig : d.name \in requestedNames})
         /\ summary.total =
              Cardinality({d \in enabledInConfig : d.name \in requestedNames})
    /\ (\A d \in configured : d.name \notin requestedNames) /\ pc # "loadConfig" =>
         /\ pc = "done"
         /\ exitCode = <<1>>
         /\ \A n \in Names : calls[n].backupDatabase = 0
    /\ pc = "done" /\ (\E d \in configured : d.name \in requestedNames) =>
         \A d \in enabledInConfig : d.name \in requestedNames => resultsFor(d.name) # {}

\* C26 witness: a run with --database ghost --database C on a configuration
\* with C and another enabled database ended with the one result of C and
\* nothing skipped.
C26_Witness ==
  /\ options.database = <<"ghost", "C">>
  /\ pc = "done"
  /\ Cardinality(enabledInConfig) = 2
  /\ Len(results) = 1
  /\ results[1].name = "C"
  /\ summary.skipped = 0
  /\ disabledInConfig # {}

\* C27: a delete of the staging artifact that raises does not change the
\* outcome: a database with at least one successful storage is returned with
\* success = true, its storages and storageErrors holding the attempts that
\* succeeded and failed.
C27_CleanupFailureKeepsOutcome ==
  \A i \in DOMAIN results :
    succeededStorages(results[i].name) # {} =>
      /\ results[i].success
      /\ Len(results[i].storages) = Cardinality(succeededStorages(results[i].name))
      /\ Len(results[i].storageErrors) = Cardinality(failedStorages(results[i].name))

RECURSIVE sumOfCalls(_)
sumOfCalls(names) ==
  IF names = {} THEN 0
  ELSE LET n == CHOOSE x \in names : TRUE
       IN calls[n].backupDatabase + sumOfCalls(names \ {n})

\* C29: databases are processed one at a time: backupDatabase is called for a
\* database only after the result of the one before it was returned, and when
\* a result has been returned nothing of its database is still running (the
\* dump process, the compression, the write to its staging file).
C29_NothingOutstandingAtReturn ==
  /\ sumOfCalls(Names) = Len(results) + (IF pc \in {"dump", "store"} THEN 1 ELSE 0)
  /\ \A i \in DOMAIN results : \A f \in outstanding : f.db # results[i].name

\* The entries rotation may delete, as the spec names them: regular files (S3
\* objects) whose name ends in .sql.gz or .dump.
candidates(files) ==
  {f \in files : f.isFile /\ f.name.ext \in {"sql.gz", "dump"}}

minOf(a, b) == IF a <= b THEN a ELSE b

\* C30: no store attempt, its rotation included, deletes or changes an entry
\* that is not a regular file with suffix .sql.gz or .dump: such entries are
\* at the storage after the attempt as before it, they stay through the whole
\* run, and a completed rotation leaves min(keep, artifacts present) artifacts
\* whatever else the storage holds.
C30_OtherEntriesUntouched ==
  /\ \A i \in DOMAIN attempts :
       LET a == attempts[i] IN
       /\ a.before \ candidates(a.before) = a.after \ candidates(a.after)
       /\ i \in rotated =>
            Cardinality(candidates(a.after)) =
              minOf(storageOf(a).keep,
                    Cardinality(candidates(a.before) \cup {File(a.file, a.at)}))
  /\ fs["/backups/z"] \ candidates(fs["/backups/z"]) \in {{}, OtherEntries(dbZ)}
  /\ fs["s3://bucket/z/"] \ candidates(fs["s3://bucket/z/"]) \in {{}, OtherObjects(dbZ)}

\* C30 witness: the run is over; the local directory and the S3 prefix of dbZ
\* each held other entries besides more artifacts than keep, a rotation pass
\* ran on each and deleted an artifact, and the other entries (the directory
\* named like an artifact among them) are all there.
C30_Witness ==
  /\ pc = "done"
  /\ \E i, j \in rotated :
       /\ attempts[i].loc = "/backups/z"
       /\ attempts[j].loc = "s3://bucket/z/"
       /\ OtherEntries(dbZ) \subseteq attempts[i].before
       /\ OtherObjects(dbZ) \subseteq attempts[j].before
       /\ candidates(attempts[i].before) \ attempts[i].after # {}
       /\ candidates(attempts[j].before) \ attempts[j].after # {}
  /\ OtherEntries(dbZ) \subseteq fs["/backups/z"]
  /\ OtherObjects(dbZ) \subseteq fs["s3://bucket/z/"]

\* The file has a defect the spec names: an enabled database with a required
\* field missing, an invalid type, an empty storage list, a storage of
\* invalid type, a local storage without path or an s3 storage without
\* bucket; or a webhook that is not a valid URL.
invalidFile(file) ==
  \/ file.webhook \in {"notAUrl", "notAString"}
  \/ \E i \in DOMAIN file.databases :
       LET d == file.databases[i] IN
       /\ d.enabled # <<FALSE>>
       /\ \/ d.given # required
          \/ d.type \notin AcceptedTypes
          \/ d.storage.form = "array" /\ d.storage.items = <<>>
          \/ \E k \in DOMAIN d.storage.items :
               \/ d.storage.items[k].type \notin {"local", "s3"}
               \/ d.storage.items[k].loc = ""

C32_WebhookOnceAfterAllBackups ==
  [][/\ webhook' # webhook =>
          /\ webhook = NoWebhook
          /\ config.webhook
          /\ Len(results) = Len(enabledDatabases)
          /\ \A i \in DOMAIN enabledDatabases :
               results[i].name = enabledDatabases[i].name
          /\ backup = NoBackup
          /\ exitCode = undefined
          /\ exitCode' = undefined
     /\ ~config.webhook => webhook' = NoWebhook
     /\ (pc = "exit" /\ exitCode' # undefined /\ config.webhook)
          => webhook # NoWebhook]_vars

\* C32 witness: a run with a webhook has exited after two results, one of
\* them a failure, and the delivery was accepted.
C32_Witness ==
  /\ pc = "done"
  /\ config.webhook
  /\ webhook.outcome = "sent"
  /\ Len(results) = 2
  /\ \E i \in DOMAIN results : ~results[i].success
  /\ Len(webhook.payload[1].results) = 2
  /\ exitCode = <<1>>

\* The report of the run, once main has printed it.
printed == summaryReport(results, disabledDatabases)

linesOf(n, symbols) ==
  {i \in DOMAIN printed : printed[i].name = n /\ printed[i].symbol \in symbols}

\* C33: in the printed report every enabled database has exactly one status
\* line, with the success symbol for success without storage errors, the
\* warning symbol for success with storage errors and the failure symbol for a
\* failure; every disabled database has one line with the skipped symbol; and
\* every storage attempted for a database has one line, of a success when it
\* returned and of an error when it raised.
C33_ReportLinePerOutcome ==
  summary # NoSummary =>
    /\ \A i \in DOMAIN results :
         LET r == results[i]
             expected == IF ~r.success THEN "failure"
                         ELSE IF failedStorages(r.name) # {} THEN "warning"
                         ELSE "success"
         IN /\ Cardinality(linesOf(r.name, {"success", "warning", "failure"})) = 1
            /\ Cardinality(linesOf(r.name, {expected})) = 1
            /\ Cardinality(linesOf(r.name, {"stored"}))
                 = Cardinality(succeededStorages(r.name))
            /\ Cardinality(linesOf(r.name, {"storage error"}))
                 = Cardinality(failedStorages(r.name))
    /\ \A i \in DOMAIN disabledDatabases :
         /\ Cardinality(linesOf(disabledDatabases[i].name, {"skipped"})) = 1
         /\ Cardinality(linesOf(disabledDatabases[i].name,
                                {"success", "warning", "failure", "stored",
                                 "storage error"})) = 0

\* C34: a result carries an error exactly when its success is false, and so
\* does its entry in the posted payload: a success, also one with failed
\* storages, has no error, and a failure has an error message.
C34_ErrorIffFailure ==
  /\ \A i \in DOMAIN results : (results[i].error # undefined) <=> ~results[i].success
  /\ webhook.payload # undefined =>
       \A i \in DOMAIN posted : (posted[i].error # undefined) <=> ~posted[i].success

\* C34 witness: the payload was posted with a success that has a storage
\* error and no error, and a failure with its error.
C34_Witness ==
  /\ webhook.payload # undefined
  /\ \E i, j \in DOMAIN posted :
       /\ posted[i].success
       /\ Len(posted[i].storageErrors) > 0
       /\ posted[i].error = undefined
       /\ results[i].error = undefined
       /\ ~posted[j].success
       /\ posted[j].error # undefined
       /\ results[j].error = posted[j].error

\* The summary was printed for every enabled and every disabled database.
summaryComplete ==
  /\ summary # NoSummary
  /\ summary.total = Len(enabledDatabases)
  /\ Len(results) = Len(enabledDatabases)
  /\ summary.skipped = Len(disabledDatabases)

C36_AtMostKeepAfterS3Rotation ==
  \A i \in rotated :
    LET a == attempts[i] IN
    a.type = "s3" =>
      Cardinality({f \in a.after : f.name.ext \in {"sql.gz", "dump"}})
        <= storageOf(a).keep

\* C37: when a dump producer has reported success, the staging file is
\* completely written: from the resolution on, through the stores and up to
\* the result, nothing of the write to the staging file of the call is
\* outstanding.
C37_ResolvedMeansWritten ==
  /\ pc = "store" => backup.file \notin outstanding
  /\ \A i \in DOMAIN results :
       results[i].success => \A f \in outstanding : f.db # results[i].name


\* C38: the rotation pass that follows a store of one database deletes
\* artifacts of that database only, also when another database stores in
\* the same directory or under the same prefix.
C38_RotationDeletesOwnArtifactsOnly ==
  \A i \in rotated :
    \A f \in deletedBy(attempts[i]) : f.name.db = attempts[i].db


\* C39: at the step with which backupDatabase returns a successful result,
\* every entry of the result's storages names a place that holds the
\* artifact: neither a rotation pass nor the delete of the staging file
\* has removed it.
C39_StoredCopiesExistAtReturn ==
  [][Len(results') > Len(results) =>
       LET r == results'[Len(results')]
       IN r.success =>
            \A k \in DOMAIN r.storages :
              existsSync(fs', r.storages[k].path[1], r.storages[k].path[2])]_vars

====
